---- MODULE Spec2Model ----
(***************************************************************************)
(* A model of dbus-mppsolar (src/dbus-mppsolar.py): the command dispatcher *)
(* runInverterCommands, and the DbusMppSolarService poll and change        *)
(* handlers that GLib's main loop calls.                                   *)
(* The functions of the test and diagnosis scripts beside it are modelled  *)
(* each under a specification of its own.                                  *)
(*                                                                         *)
(* Specifications:                                                         *)
(*   SpecDispatch  one call of runInverterCommands, step by step, for      *)
(*                 every batch and every answer of the device.             *)
(*   Spec          the service as main() runs it: the clock, the polls     *)
(*                 (_update with _update_PI18) and the change requests.    *)
(*   SpecHandlers  the same service with self._invProtocol holding each of *)
(*                 the dialects PI18, PI30 and PI17.                       *)
(*   SpecLoop      the main loop's dispatch of the poll timer and of the   *)
(*                 change requests, which arrive at any moment.            *)
(*   SpecDetect    _detect_protocol as __init__ runs it, then the service. *)
(*   SpecProbing   _detect_protocol, then test_mppsolar_library of         *)
(*                 src/diagnose_inverter.py, probe by probe.               *)
(*   SpecProject   the service under PI30, PI17 or PI18SV with the answers *)
(*                 of its polls fixed from the start.                      *)
(*   SpecEstimators  the PI30 polls with the estimators' carries drawn.    *)
(*   SpecRequests  the service under each dialect and the change requests  *)
(*                 of its clients, command by command.                     *)
(*   SpecSerial    the functions of the scripts that open the serial port, *)
(*                 step by step.                                           *)
(*   SpecFrames    crc16 and format_command of src/diagnose_inverter.py,   *)
(*                 and frames arriving with one bit flipped.               *)
(*   SpecParallel  _process_parallel_data over the answers of the units.   *)
(*   SpecRecommend main of src/test_detect_protocol.py with pick_best.     *)
(*   SpecDetectFair  SpecDetect with every pass of the detection loop      *)
(*                 taken in the end.                                       *)
(*   SpecService   __init__ with _detect_protocol, then the polls and the  *)
(*                 change requests.                                        *)
(*   SpecQueue     the service with several writes of                      *)
(*                 /Settings/UpdateInterval waiting for a poll.            *)
(***************************************************************************)
EXTENDS Integers, Sequences, FiniteSets, TLC

\* ------------------------------------------------------------ bounds
\* The longest batch of commands handed to runInverterCommands.
MaxBatch == 2
\* time.time() when the service is constructed, in seconds.
StartTime == 10
\* How far the clock runs past StartTime.
MaxTicks == 3
\* The poll cycles that are not throttled, at most.
MaxCycles == 3
\* The change requests waiting in _queued_updates, at most.
MaxQueue == 1

\* ------------------------------------------------- program constants
\* runInverterCommands(commands, protocol="PI30", retries=3, retry_delay=0.5)
retries == 3
\* retry_delay, in milliseconds (0.5 s).
retry_delay == 500
\* time.sleep(0.3) before every dev.run_command, in milliseconds.
PreCommandDelay == 300
\* time.sleep(0.25) between the commands of a batch, in milliseconds.
SettleDelay == 250

\* The command strings batches are drawn from (two setters of _change_PI18SV).
CommandNames == {"PCP02", "POP01"}

\* ------------------------------------------------------- dispatcher
\* What one dev.run_command call can do, as execute_command tells the cases
\* apart.  "cause" is what happened on the wire; the code never reads it.
Outcomes ==
    {[form |-> "dict_data", cause |-> "none"],
     [form |-> "dict_empty", cause |-> "none"],
     [form |-> "text_ok", cause |-> "none"],
     [form |-> "dict_ERROR", cause |-> "nak"],
     [form |-> "dict_ERROR", cause |-> "timeout"],
     [form |-> "dict_error", cause |-> "nak"],
     [form |-> "dict_error", cause |-> "timeout"],
     [form |-> "dict_error", cause |-> "malformed"],
     [form |-> "falsy", cause |-> "timeout"],
     [form |-> "raise", cause |-> "timeout"],
     [form |-> "text_bad", cause |-> "malformed"]}

\* result = None, before the first attempt of a command.
NoResult == [form |-> "None", cause |-> "none"]

\* The entry the outer except handler returns for every command.
BatchError == [form |-> "batch_failed", cause |-> "none"]

\* execute_command: the result of one attempt.  A dict is returned as it
\* is; the other cases are turned into an error dict or a parsed dict.
execute_command(o) ==
    CASE o.form = "raise" -> [form |-> "exec_failed", cause |-> o.cause]
      [] o.form = "falsy" -> [form |-> "no_response", cause |-> o.cause]
      [] o.form = "text_ok" -> [form |-> "parsed", cause |-> o.cause]
      [] o.form = "text_bad" -> [form |-> "invalid_response", cause |-> o.cause]
      [] OTHER -> o

\* "error" in result: the forms that are dicts with a lowercase error key.
HasError(r) ==
    r.form \in {"exec_failed", "no_response", "invalid_response",
                "dict_error", "batch_failed"}

\* The retry decision the specification asks for: a Nak is not retried.
IsFailure_NakStops(r) == HasError(r) /\ r.cause # "nak"

\* `not isinstance(result, dict) or "error" not in result` is success (break);
\* anything else is a failed attempt.  Every result here is a dict.
IsFailure(r) == HasError(r)

\* The retry loop never leaving on success.
LoopEnds_NoBreak(r, a) == a + 1 >= retries

\* `for attempt in range(retries)` ends after this attempt: by the break on
\* success, or because it was the last of the range.
LoopEnds(r, a) == ~IsFailure(r) \/ a + 1 >= retries

\* A failed command left out of the list.
Recorded_SkipFailed(rs, r) == IF HasError(r) THEN rs ELSE Append(rs, r)

\* results.append(result)
Recorded(rs, r) == Append(rs, r)

\* The batch given up at the first failed command.
NextCommand_AbortOnFailure(cmds, i, r) ==
    IF HasError(r) THEN Len(cmds) + 1 ELSE i + 1

\* `for cmd in commands`: the loop goes on to the next position, whatever
\* the result of this one.
NextCommand(cmds, i, r) == i + 1

\* retry_delay * (2 ** attempt)
RECURSIVE Pow2(_)
Pow2(n) == IF n = 0 THEN 1 ELSE 2 * Pow2(n - 1)

\* The same wait before every retry.
BackoffDelay_Constant(a) == retry_delay

BackoffDelay(a) == retry_delay * Pow2(a)

\* if attempt < retries - 1: the failed attempt is followed by a wait.
BackoffAfter(a) == a < retries - 1

\* if len(commands) > 1 and cmd != commands[-1]: time.sleep(0.25)
SettleAfter(cmds, i) == Len(cmds) > 1 /\ cmds[i] # cmds[Len(cmds)]

\* ---------------------------------------- the dispatcher, as one call
\* A script is what the device does at the successive attempts of one
\* command: failures, up to the answer that ends the retry loop.
Failing == {o \in Outcomes : HasError(execute_command(o))}

Scripts ==
    {s \in UNION {[1..n -> Outcomes] : n \in 1..retries} :
        /\ \A k \in 1..(Len(s) - 1) : s[k] \in Failing
        /\ Len(s) < retries => s[Len(s)] \notin Failing}

\* The device's answer at attempt a (from 0); past the script's end, its
\* last answer again.
Answer(s, a) == s[IF a + 1 <= Len(s) THEN a + 1 ELSE Len(s)]

\* The retry loop of one command: the result it ends with and the number
\* of attempts made.
RECURSIVE RetryLoop(_, _)
RetryLoop(s, a) ==
    LET r == execute_command(Answer(s, a))
    IN  IF LoopEnds(r, a)
        THEN [result |-> r, tries |-> a + 1]
        ELSE RetryLoop(s, a + 1)

RECURSIVE RunCommands(_, _, _, _)
RunCommands(cmds, scripts, i, rs) ==
    IF i > Len(cmds)
    THEN rs
    ELSE LET r == RetryLoop(scripts[i], 0).result
         IN  RunCommands(cmds, scripts, NextCommand(cmds, i, r), Recorded(rs, r))

\* runInverterCommands(commands): the list returned.  devOk: the device
\* object could be constructed.
runInverterCommands(cmds, devOk, scripts) ==
    IF devOk
    THEN RunCommands(cmds, scripts, 1, <<>>)
    ELSE [i \in 1..Len(cmds) |-> BatchError]

\* ---------------------------------------------------------- the service
\* A published value or a dict entry: None, or a value x held as Some(x).
None == <<>>
Some(x) == <<x>>
Val(o) == o[1]

\* self._update_interval = 2 (seconds)
update_interval == 2

\* "ERROR" in piri_data: the dict forms with an uppercase ERROR key.
HasERROR(r) == r.form = "dict_ERROR"

\* 'raw_response' in piri_data and piri_data['raw_response']: the dicts the
\* device class returns carry the raw answer (['', ''] when it holds no
\* data, still a non-empty list); a dict parsed from text carries none.
HasRawResponse(r) == r.form \in {"dict_data", "dict_empty"}

\* _handle_protocol_error(error_type): the multi service after it.
_handle_protocol_error(error_type, m0) ==
    CASE error_type = "communication" ->
            [m0 EXCEPT !["/Alarms/Connection"] = Some(2), !["/State"] = Some(0)]
      [] error_type = "status_error" ->
            [m0 EXCEPT !["/Alarms/Connection"] = Some(1), !["/State"] = Some(2)]
      [] OTHER ->
            [m0 EXCEPT !["/Alarms/Connection"] = Some(1)]

\* The queue written back to front: the earliest request for a path wins.
RECURSIVE _updateInternal_Reversed(_, _)
_updateInternal_Reversed(m0, q) ==
    IF q = <<>>
    THEN m0
    ELSE [_updateInternal_Reversed(m0, Tail(q))
            EXCEPT ![q[1][1]] = Some(q[1][2])]

\* _updateInternal: every queued (path, value) written to the multi service,
\* in queue order.
RECURSIVE _updateInternal(_, _)
_updateInternal(m0, q) ==
    IF q = <<>>
    THEN m0
    ELSE _updateInternal([m0 EXCEPT ![q[1][1]] = Some(q[1][2])], Tail(q))

\* A failed PI18 cycle that also clears the published battery voltage.
_update_PI18_failed_ClearsData(m0) ==
    [_handle_protocol_error("status_error", m0) EXCEPT !["/Dc/0/Voltage"] = None]

\* _update_PI18, the status_error exit: the multi service after it.
_update_PI18_failed(m0) == _handle_protocol_error("status_error", m0)

\* _update_PI18(): what the handler returns and leaves published, from the
\* list raw that runInverterCommands(['PIRI']) returned.
_update_PI18(raw, m0, v0, q, dcLast0, chargeLast0) ==
    IF Len(raw) = 0
    THEN [raised |-> FALSE, success |-> FALSE,
          m |-> _handle_protocol_error("communication", m0), v |-> v0,
          queued_updates |-> q, dcLast |-> dcLast0, chargeLast |-> chargeLast0]
    ELSE IF HasError(raw[1]) \/ HasERROR(raw[1])
    THEN [raised |-> FALSE, success |-> FALSE,
          m |-> _update_PI18_failed(m0), v |-> v0, queued_updates |-> q,
          dcLast |-> dcLast0, chargeLast |-> chargeLast0]
    ELSE LET m1 == [m0 EXCEPT !["/State"] = Some(3)]
             v1 == [v0 EXCEPT !["/State"] = m1["/State"]]
             m2 == IF HasRawResponse(raw[1])
                   THEN [m1 EXCEPT !["/Dc/0/Voltage"] = Some(24),
                                   !["/Dc/0/Current"] = Some(0),
                                   !["/Ac/Out/L1/V"] = Some(230),
                                   !["/Ac/Out/L1/F"] = Some(50),
                                   !["/Ac/Out/L1/P"] = Some(0),
                                   !["/Alarms/Connection"] = Some(0)]
                   ELSE m1
             v2 == IF HasRawResponse(raw[1])
                   THEN [v1 EXCEPT !["/Dc/0/Voltage"] = Some(24),
                                   !["/Dc/0/Current"] = Some(0),
                                   !["/Ac/Out/L1/V"] = Some(230),
                                   !["/Ac/Out/L1/F"] = Some(50),
                                   !["/Ac/Out/L1/P"] = Some(0)]
                   ELSE v1
         IN  [raised |-> FALSE, success |-> TRUE,
              m |-> _updateInternal(m2, q), v |-> v2, queued_updates |-> <<>>,
              dcLast |-> dcLast0, chargeLast |-> chargeLast0]

\* ------------------------------------------------ the PI30 / PI17 polls
\* Configuration constants of the module.
INVERTER_OFF_ASSUME_BYPASS == TRUE
GUESS_AC_CHARGING == TRUE

\* The results that are dicts holding the fields of the device's answer.
Carries(r) == r.form \in {"dict_data", "parsed"}

\* dict.get(key, None) and dict.get(key, default) on a result r whose
\* answer, when it carries one, holds the fields f (None: no such key).
Get(r, f, key) == IF Carries(r) THEN f[key] ELSE None
GetOr(r, f, key, default) ==
    IF Get(r, f, key) = None THEN default ELSE Val(Get(r, f, key))

\* x or 0
OrZero(o) == IF o = None THEN 0 ELSE Val(o)

\* A projection that takes Standby for Off whatever the charger does.
StateOf_StandbyIsOff(invMode, charging) ==
    CASE invMode = Some("Battery") -> 9
      [] invMode = Some("Line") -> IF charging = 1 THEN 3 ELSE 8
      [] OTHER -> 0

\* The state projection of _update_PI30 and _update_PI17.
StateOf(invMode, charging) ==
    CASE invMode = Some("Battery") -> 9
      [] invMode = Some("Line") -> IF charging = 1 THEN 3 ELSE 8
      [] invMode = Some("Standby") -> charging * 6
      [] OTHER -> 0

\* A clamp with the lower bound only.
Clamp_NoCeiling(dcPower) == IF dcPower < 27 THEN 27 ELSE dcPower

\* power = 27 if dcPower < 27 else dcPower; power = 100 if power > 100 else power
Clamp(dcPower) ==
    LET power == IF dcPower < 27 THEN 27 ELSE dcPower
    IN  IF power > 100 THEN 100 ELSE power

\* A reset that leaves the estimator's offset in the carry.
CarryAfter_Offset(triggered, value) == IF triggered THEN value ELSE 27

\* What an estimator of _update_PI30 leaves in its carry (self._dcLast,
\* self._chargeLast): the value it derived, or 0 when its condition is false.
CarryAfter(triggered, value) == IF triggered THEN value ELSE 0

\* getWarning(string) of _update_PI30 and _update_PI17, on the result
\* `warnings` whose answer, when it carries one, holds the flags w.
getWarning(warnings, w, string) ==
    LET val == Get(warnings, w, string)
    IN  IF val = None THEN 1 ELSE Val(val) * 2

\* _update_PI30(): what the handler returns or raises and what it leaves,
\* from the list raw that runInverterCommands(['QPIGS','QMOD','QPIWS'])
\* returned, the fields f of the QPIGS answer, the fields g of the QMOD
\* answer, the flags w of the QPIWS answer and the system DC power reading
\* dcSystem.
\* Not modelled: the assignment of line 723 to /Dc/0/Current (a quotient),
\* the paths that only copy a field (input voltage and frequency, PV,
\* temperature), and the alarms other than /Alarms/Connection,
\* /Alarms/Overload and /Alarms/LineFail, which are derived as these two.
_update_PI30(raw, f, g, w, dcSystem, m0, v0, q, dcLast0, chargeLast0) ==
    LET data == raw[1]
        mode == raw[2]
        invMode == Get(mode, g, "device_mode")
        charging_ac == GetOr(data, f, "is_charging_on", 0)
        load_on == GetOr(data, f, "is_load_on", 0)
        state == StateOf(invMode, charging_ac)
        voltage == Get(data, f, "battery_voltage")
        discharge == GetOr(data, f, "battery_discharge_current", 0)
        outP == Get(data, f, "ac_output_active_power")
        outS == Get(data, f, "ac_output_aparent_power")
        \* lines 651-681
        mA == [m0 EXCEPT !["/State"] = Some(state),
                         !["/Dc/0/Voltage"] = voltage,
                         !["/Dc/0/Current"] = Some(0 - discharge),
                         !["/Ac/Out/L1/V"] = Get(data, f, "ac_output_voltage"),
                         !["/Ac/Out/L1/F"] = Get(data, f, "ac_output_frequency"),
                         !["/Ac/Out/L1/P"] = outP,
                         !["/Ac/Out/L1/S"] = outS]
        vA == [v0 EXCEPT !["/State"] = Some(state),
                         !["/Dc/0/Voltage"] = voltage,
                         !["/Dc/0/Current"] = Some(discharge),
                         !["/Ac/Out/L1/V"] = Get(data, f, "ac_output_voltage"),
                         !["/Ac/Out/L1/F"] = Get(data, f, "ac_output_frequency"),
                         !["/Ac/Out/L1/P"] = outP,
                         !["/Ac/Out/L1/S"] = outS]
        \* lines 683-691: the small-output-power estimate
        small == outP = Some(0) /\ load_on = 1 /\ voltage # None /\ dcSystem # None
        estP == Clamp(Val(dcSystem) + dcLast0 + 27) - 27
        mB == IF small THEN [mA EXCEPT !["/Ac/Out/L1/P"] = Some(estP)] ELSE mA
        dcLast1 == CarryAfter(small, estP)
        \* lines 693-699: the AC charging current estimate
        guess == GUESS_AC_CHARGING /\ dcSystem # None /\ charging_ac = 1
        chargePower == Val(dcSystem) + chargeLast0
        chargeLast1 == CarryAfter(guess, chargePower - 30)
        \* -(chargePower - 30) / m['/Dc/0/Voltage'] raises on None and on 0
        raises697 == guess /\ (voltage = None \/ voltage = Some(0))
        \* charging_ac * charging_ac_current * m['/Dc/0/Voltage']
        chargingPower ==
            IF guess
            THEN charging_ac * (0 - (chargePower - 30))
            ELSE charging_ac * GetOr(data, f, "battery_charging_current", 0)
                             * Val(voltage)
        \* lines 701-704: the bypass assumption
        mC == IF INVERTER_OFF_ASSUME_BYPASS /\ load_on = 0
              THEN [mB EXCEPT !["/Ac/Out/L1/P"] = None, !["/Ac/Out/L1/S"] = None]
              ELSE mB
        \* lines 710-716: line 714 has assigned when line 715 raises, which
        \* it does when the voltage is None (a number times None)
        raises715 == state # 0 /\ voltage = None
        inP714 == IF invMode = Some("Battery")
                  THEN Some(0) ELSE mC["/Ac/Out/L1/P"]
        inP == IF state = 0
               THEN None
               ELSE Some(OrZero(inP714) + chargingPower)
        mD == [mC EXCEPT
                 !["/Ac/In/1/L1/P"] = inP,
                 !["/Alarms/Connection"] = Some(0),
                 !["/Alarms/Overload"] =
                     Some(getWarning(raw[3], w, "overload_fault")),
                 !["/Alarms/LineFail"] =
                     Some(getWarning(raw[3], w, "line_fail_warning"))]
        vD == [vA EXCEPT !["/Ac/ActiveIn/L1/P"] = inP]
    IN  IF raises697
        THEN [raised |-> TRUE, success |-> FALSE, m |-> mB, v |-> vA,
              queued_updates |-> q, dcLast |-> dcLast1, chargeLast |-> chargeLast1]
        ELSE IF raises715
        THEN [raised |-> TRUE, success |-> FALSE,
              m |-> [mC EXCEPT !["/Ac/In/1/L1/P"] = inP714], v |-> vA,
              queued_updates |-> q, dcLast |-> dcLast1, chargeLast |-> chargeLast1]
        ELSE [raised |-> FALSE, success |-> TRUE, m |-> _updateInternal(mD, q),
              v |-> vD, queued_updates |-> <<>>, dcLast |-> dcLast1,
              chargeLast |-> chargeLast1]

\* _update_PI17(): as _update_PI30 without the two estimates and without
\* the acsystem service; self._dcLast is read by line 861 only.
_update_PI17(raw, f, g, w, m0, v0, q, dcLast0, chargeLast0) ==
    LET data == raw[1]
        mode == raw[2]
        invMode == Get(mode, g, "device_mode")
        charging_ac == GetOr(data, f, "is_charging_on", 0)
        load_on == GetOr(data, f, "is_load_on", 0)
        state == StateOf(invMode, charging_ac)
        voltage == Get(data, f, "battery_voltage")
        discharge == GetOr(data, f, "battery_discharge_current", 0)
        \* lines 800-835
        mA == [m0 EXCEPT !["/State"] = Some(state),
                         !["/Dc/0/Voltage"] = voltage,
                         !["/Dc/0/Current"] = Some(0 - discharge),
                         !["/Ac/Out/L1/V"] = Get(data, f, "ac_output_voltage"),
                         !["/Ac/Out/L1/F"] = Get(data, f, "ac_output_frequency"),
                         !["/Ac/Out/L1/P"] = Get(data, f, "ac_output_active_power"),
                         !["/Ac/Out/L1/S"] = Get(data, f, "ac_output_aparent_power")]
        \* lines 837-840
        mC == IF INVERTER_OFF_ASSUME_BYPASS /\ load_on = 0
              THEN [mA EXCEPT !["/Ac/Out/L1/P"] = None, !["/Ac/Out/L1/S"] = None]
              ELSE mA
        \* lines 848-854
        raises853 == state # 0 /\ voltage = None
        inP852 == IF invMode = Some("Battery")
                  THEN Some(0) ELSE mC["/Ac/Out/L1/P"]
        inP == IF state = 0
               THEN None
               ELSE Some(OrZero(inP852)
                         + charging_ac
                           * GetOr(data, f, "battery_charging_current", 0)
                           * Val(voltage))
        mD == [mC EXCEPT
                 !["/Ac/In/1/L1/P"] = inP,
                 !["/Alarms/Connection"] = Some(0),
                 !["/Alarms/Overload"] =
                     Some(getWarning(raw[3], w, "overload_fault")),
                 !["/Alarms/LineFail"] =
                     Some(getWarning(raw[3], w, "line_fail_warning"))]
    IN  IF raises853
        THEN [raised |-> TRUE, success |-> FALSE,
              m |-> [mC EXCEPT !["/Ac/In/1/L1/P"] = inP852], v |-> v0,
              queued_updates |-> q, dcLast |-> dcLast0, chargeLast |-> chargeLast0]
        ELSE [raised |-> FALSE, success |-> TRUE, m |-> _updateInternal(mD, q),
              v |-> v0, queued_updates |-> <<>>, dcLast |-> dcLast0,
              chargeLast |-> chargeLast0]

\* ------------------------------------------------------ the PI18SV poll
\* The state projection of _update_PI18SV from the working mode token and
\* the battery charge current.
StateOf_PI18SV(invMode, chargeCurrent) ==
    CASE invMode = "03" -> 9
      [] invMode = "05" -> IF chargeCurrent > 0 THEN 3 ELSE 8
      [] invMode = "02" -> 8
      [] invMode = "01" -> IF chargeCurrent > 0 THEN 6 ELSE 0
      [] invMode = "04" -> 2
      [] OTHER -> 0

\* convert_value(value, scale, min_val, max_val), the scale given in tenths
\* and the values being the ones the scaling keeps whole; None for a bound
\* that is not given.
convert_value(value, scale10, min_val, max_val) ==
    IF value = None
    THEN None
    ELSE LET val == (Val(value) * scale10) \div 10
             low == IF min_val # None /\ val < Val(min_val)
                    THEN Val(min_val) ELSE val
             high == IF max_val # None /\ low > Val(max_val)
                     THEN Val(max_val) ELSE low
         IN  Some(high)

\* get_flag(key, default) of _update_PI18SV, on the result `flags` whose
\* answer, when it carries one, holds the flags w.
get_flag(flags, w, key, default) ==
    LET val == Get(flags, w, key)
    IN  IF val = None THEN default ELSE Val(val)

\* _update_PI18SV(): what the handler returns and what it leaves, from the
\* list raw_status that runInverterCommands(['GS','MOD','FLAG']) returned
\* (one entry per command, so the first try of lines 1000-1006 is the only
\* one), the list raw_power that runInverterCommands(['PIRI']) returned, the
\* fields f of the GS answer, the fields g of the MOD answer and the flags w
\* of the FLAG answer.  Every exception is caught by line 1157; none arises
\* from the answers drawn here.
\* Not modelled: the paths that only convert a field as the ones below are
\* converted (AC input, PV, temperature) and the alarms other than
\* /Alarms/Connection, /Alarms/Overload and /Alarms/LineFail.
_update_PI18SV(raw_status, raw_power, f, g, w, m0, v0, q, dcLast0, chargeLast0) ==
    LET data == raw_status[1]
        mode == raw_status[2]
        flags == raw_status[3]
        power_data == raw_power[1]
        \* lines 1026-1027
        m1 == IF HasError(power_data)
              THEN _handle_protocol_error("data_error", m0) ELSE m0
        \* lines 1047-1063
        invMode == GetOr(mode, g, "device_mode", "00")
        state == StateOf_PI18SV(invMode,
                                GetOr(data, f, "Battery Charge Current", 0))
        \* lines 1082-1105
        battery_voltage ==
            convert_value(Get(data, f, "Battery Voltage"), 1, Some(0), Some(100))
        discharge_current ==
            convert_value(Some(GetOr(data, f, "Battery Discharge Current", 0)),
                          10, Some(0), None)
        outV == convert_value(Get(data, f, "AC Output Voltage"), 1,
                              Some(0), Some(300))
        outF == convert_value(Get(data, f, "AC Output Frequency"), 1,
                              Some(45), Some(65))
        outP == convert_value(Get(data, f, "AC Output Active Power"), 10,
                              Some(0), None)
        outS == convert_value(Get(data, f, "AC Output Apparent Power"), 10,
                              Some(0), None)
        \* lines 1138-1147
        mD == [m1 EXCEPT !["/State"] = Some(state),
                         !["/Dc/0/Voltage"] = battery_voltage,
                         !["/Dc/0/Current"] = Some(0 - Val(discharge_current)),
                         !["/Ac/Out/L1/V"] = outV,
                         !["/Ac/Out/L1/F"] = outF,
                         !["/Ac/Out/L1/P"] = outP,
                         !["/Ac/Out/L1/S"] = outS,
                         !["/Alarms/Connection"] = Some(0),
                         !["/Alarms/Overload"] =
                             Some(get_flag(flags, w, "D", 0) * 2),
                         !["/Alarms/LineFail"] =
                             Some(get_flag(flags, w, "G", 0) * 2)]
        vD == [v0 EXCEPT !["/State"] = Some(state),
                         !["/Dc/0/Voltage"] = battery_voltage,
                         !["/Dc/0/Current"] = discharge_current,
                         !["/Ac/Out/L1/V"] = outV,
                         !["/Ac/Out/L1/F"] = outF,
                         !["/Ac/Out/L1/P"] = outP,
                         !["/Ac/Out/L1/S"] = outS]
    IN  IF HasError(data) \/ HasError(mode)
        THEN \* lines 1018-1020
             [raised |-> FALSE, success |-> FALSE,
              m |-> _handle_protocol_error("status_error", m0), v |-> v0,
              queued_updates |-> q, dcLast |-> dcLast0,
              chargeLast |-> chargeLast0]
        ELSE [raised |-> FALSE, success |-> TRUE, m |-> _updateInternal(mD, q),
              v |-> vD, queued_updates |-> <<>>, dcLast |-> dcLast0,
              chargeLast |-> chargeLast0]

\* _connectToDc(): the import of com.victronenergy.system /Dc/System/Power
\* is tried when there is none yet; a failure is swallowed.
_connectToDc(sys) == IF sys = "None" THEN {"None", "imported"} ELSE {sys}

VARIABLES
    commands,   \* the batch
    dev,        \* the device object: "unset", "ok"
    results,    \* the list being built, then returned
    cmdIdx,     \* position of `for cmd in commands` (1-based)
    attempt,    \* `for attempt in range(retries)`
    result,     \* result of the last attempt of the current command
    pc,         \* "init", "loop", "done"
    tries,      \* per position: the number of attempts made
    lastTried,  \* per position: the result of the latest attempt made
    waits,      \* per position: the backoff waits slept, in order
    settles,    \* per position: the settle delay slept after it (0: none)
    invProtocol,     \* self._invProtocol
    now,             \* time.time(), in seconds
    last_update,     \* self._last_update
    m,               \* the paths of self._dbusmulti
    v,               \* the paths of self._dbusvebus
    queued_updates,  \* self._queued_updates
    timer,           \* the GLib timeout source of _update: "scheduled", "removed"
    mainloop,        \* the GLib main loop: "running", "quit"
    systemDcPower,   \* self._systemDcPower: "None", "imported"
    dcLast,          \* self._dcLast
    chargeLast,      \* self._chargeLast
    cycle,           \* when the latest step was a call of _update: how it
                     \* ended, the attempts its status command took and
                     \* whether that command's entry in the returned list is
                     \* an error entry
    inp,             \* the answers a poll is given, when they are fixed from
                     \* the start
    detect,          \* _detect_protocol: where it is and what it returned
    invData,         \* self._invData
    diag,            \* test_mppsolar_library: where it is, what it returned
    loop,            \* the main loop: the callback it is running, the
                     \* requests waiting and the order they were served in
    req,             \* the latest call of _change: the request, the
                     \* commands handed to the dispatcher and how they
                     \* fared, what was returned to the requester
    tool             \* the run of a function of the test and diagnosis
                     \* scripts that is being followed

dvars == <<commands, dev, results, cmdIdx, attempt, result, pc, tries,
           lastTried, waits, settles>>

svars == <<invProtocol, now, last_update, m, v, queued_updates, timer,
           mainloop, systemDcPower, dcLast, chargeLast, cycle>>

pvars == <<inp, detect, invData, diag, loop>>

tvars == <<req, tool>>

vars == <<dvars, svars, pvars, tvars>>

\* The latest step was no call of _update.
NoCycle == [how |-> "none", tries |-> 0, status |-> "none"]

\* The service as __init__ leaves it and main() starts it: the paths with the
\* values of _setup_multi_paths, _setup_vebus_paths and setupDefaultPaths,
\* the poll timer added, the main loop running.
ServiceStart ==
    /\ now = StartTime
    /\ last_update = 0
    /\ m = [p \in {"/State", "/Alarms/Connection", "/Alarms/Overload",
                    "/Alarms/LineFail", "/Dc/0/Voltage",
                    "/Dc/0/Current", "/Ac/Out/L1/V", "/Ac/Out/L1/F",
                    "/Ac/Out/L1/P", "/Ac/Out/L1/S", "/Ac/In/1/L1/P", "/Mode",
                    "/Settings/Reset", "/Settings/UpdateInterval",
                    "/Status/LastUpdate", "/Status/UpdateCount",
                    "/Status/ErrorCount", "/Status/LastError",
                    "/Status/Uptime"} |->
                CASE p = "/State" -> Some(9)
                  [] p = "/Settings/UpdateInterval" -> Some(update_interval)
                  [] p \in {"/Settings/Reset", "/Status/LastUpdate"} -> None
                  [] p = "/Status/LastError" -> Some("")
                  [] OTHER -> Some(0)]
    /\ v = [p \in {"/State", "/Dc/0/Voltage", "/Dc/0/Current",
                    "/Ac/Out/L1/V", "/Ac/Out/L1/F", "/Ac/Out/L1/P",
                    "/Ac/Out/L1/S", "/Ac/ActiveIn/L1/P"} |-> Some(0)]
    /\ queued_updates = <<>>
    /\ timer = "scheduled"
    /\ mainloop = "running"
    /\ systemDcPower = "None"
    /\ dcLast = 0
    /\ chargeLast = 0
    /\ cycle = NoCycle

\* __init__ ends with self._invProtocol = 'PI18' whatever was detected.
ServiceInit == invProtocol = "PI18" /\ ServiceStart

\* No call of runInverterCommands is being followed step by step.
DispatchIdle ==
    /\ commands = <<>>
    /\ dev = "unset"
    /\ results = <<>>
    /\ cmdIdx = 1
    /\ attempt = 0
    /\ result = NoResult
    /\ pc = "idle"
    /\ tries = <<>>
    /\ lastTried = <<>>
    /\ waits = <<>>
    /\ settles = <<>>

\* Neither detection, the diagnosis tool nor the main loop's queue is
\* followed, and a poll's answers are drawn when it runs.
\* No call of _change has been made and no script function is followed.
NoRequest == req = None /\ tool = None

Unfollowed ==
    /\ NoRequest
    /\ inp = None
    /\ detect = None
    /\ invData = None
    /\ diag = None
    /\ loop = None

Batches == UNION {[1..n -> CommandNames] : n \in 0..MaxBatch}

DispatchInit ==
    /\ commands \in Batches
    /\ dev = "unset"
    /\ results = <<>>
    /\ cmdIdx = 1
    /\ attempt = 0
    /\ result = NoResult
    /\ pc = "init"
    /\ tries = [i \in 1..Len(commands) |-> 0]
    /\ lastTried = [i \in 1..Len(commands) |-> NoResult]
    /\ waits = [i \in 1..Len(commands) |-> <<>>]
    /\ settles = [i \in 1..Len(commands) |-> 0]
    /\ ServiceInit
    /\ Unfollowed

\* dev = get_device_class("mppsolar")(...) succeeds.
ConstructDevice ==
    /\ pc = "init"
    /\ dev' = "ok"
    /\ pc' = "loop"
    /\ UNCHANGED <<commands, results, cmdIdx, attempt, result, tries,
                   lastTried, waits, settles, svars, pvars, tvars>>

\* The constructor raises: the outer except returns one error per command.
ConstructFails ==
    /\ pc = "init"
    /\ results' = [i \in 1..Len(commands) |-> BatchError]
    /\ pc' = "done"
    /\ UNCHANGED <<commands, dev, cmdIdx, attempt, result, tries,
                   lastTried, waits, settles, svars, pvars, tvars>>

\* One pass of the retry loop's body, and, when the loop ends with it, the
\* code after the loop: append the result, sleep the settle delay, go on to
\* the next command.
AttemptStep(o) ==
    LET r == execute_command(o)
        last == LoopEnds(r, attempt)
    IN  /\ pc = "loop"
        /\ cmdIdx <= Len(commands)
        /\ tries' = [tries EXCEPT ![cmdIdx] = @ + 1]
        /\ lastTried' = [lastTried EXCEPT ![cmdIdx] = r]
        /\ waits' = IF IsFailure(r) /\ BackoffAfter(attempt)
                    THEN [waits EXCEPT ![cmdIdx] = Append(@, BackoffDelay(attempt))]
                    ELSE waits
        /\ IF last
           THEN /\ results' = Recorded(results, r)
                /\ settles' = IF SettleAfter(commands, cmdIdx)
                              THEN [settles EXCEPT ![cmdIdx] = SettleDelay]
                              ELSE settles
                /\ cmdIdx' = NextCommand(commands, cmdIdx, r)
                /\ attempt' = 0
                /\ result' = NoResult
           ELSE /\ result' = r
                /\ attempt' = attempt + 1
                /\ UNCHANGED <<results, settles, cmdIdx>>
        /\ UNCHANGED <<commands, dev, pc, svars, pvars, tvars>>

Attempt == \E o \in Outcomes : AttemptStep(o)

\* return results
Return ==
    /\ pc = "loop"
    /\ cmdIdx > Len(commands)
    /\ pc' = "done"
    /\ UNCHANGED <<commands, dev, results, cmdIdx, attempt, result, tries,
                   lastTried, waits, settles, svars, pvars, tvars>>

DispatchNext == ConstructDevice \/ ConstructFails \/ Attempt \/ Return

SpecDispatch == DispatchInit /\ [][DispatchNext]_vars

\* ------------------------------------------------- the service's steps
\* The clock advances.
Tick ==
    /\ now < StartTime + MaxTicks
    /\ now' = now + 1
    /\ cycle' = NoCycle
    /\ UNCHANGED <<dvars, pvars, tvars, invProtocol, last_update, m, v,
                   queued_updates, timer, mainloop, systemDcPower, dcLast,
                   chargeLast>>

\* GLib removes a timeout source when its callback returns a false value.
TimerAfter(returned) == IF returned THEN "scheduled" ELSE "removed"

\* The status paths _update writes before it calls the protocol handler.
Stamped(m0) ==
    [m0 EXCEPT !["/Status/LastUpdate"] = Some(now),
               !["/Status/Uptime"] = Some(now - StartTime)]

\* One more poll counted per attempt of the status command.
Counted_PerAttempt(m0, path) == [m0 EXCEPT ![path] = Some(Val(@) + retries)]

\* m['/Status/UpdateCount'] = m['/Status/UpdateCount'] + 1, and the same
\* for ErrorCount.
Counted(m0, path) == [m0 EXCEPT ![path] = Some(Val(@) + 1)]

\* if now - self._last_update < self._update_interval: return True
Throttled == now - last_update < update_interval

\* A throttled call reads no input: the sets inputs are drawn from shrink
\* to one element then.
WhenDue(S, x) == IF Throttled THEN {x} ELSE S

\* _update(), from the throttle check on, given what the protocol handler
\* did (h, computed on the stamped paths), the attempts its status command
\* took and that command's entry in the returned list.
_update(h, sys, statusTries, statusResult) ==
    IF Throttled
    THEN /\ cycle' = [how |-> "throttled", tries |-> 0, status |-> "none"]
         /\ timer' = TimerAfter(TRUE)
         /\ UNCHANGED <<invProtocol, now, last_update, m, v, queued_updates,
                        mainloop, systemDcPower, dcLast, chargeLast>>
    ELSE /\ systemDcPower' = sys
         /\ v' = h.v
         /\ queued_updates' = h.queued_updates
         /\ dcLast' = h.dcLast
         /\ chargeLast' = h.chargeLast
         /\ IF h.raised
            THEN /\ m' = [Counted(h.m, "/Status/ErrorCount")
                            EXCEPT !["/Status/LastError"] = Some("exception")]
                 /\ mainloop' = "quit"
                 /\ timer' = TimerAfter(FALSE)
                 /\ cycle' = [how |-> "raised", tries |-> statusTries,
                              status |-> IF HasError(statusResult)
                                         THEN "error" ELSE "ok"]
                 /\ UNCHANGED last_update
            ELSE IF h.success
            THEN /\ last_update' = now
                 /\ m' = [Counted(h.m, "/Status/UpdateCount")
                            EXCEPT !["/Status/LastError"] = Some("")]
                 /\ timer' = TimerAfter(TRUE)
                 /\ cycle' = [how |-> "success", tries |-> statusTries,
                              status |-> IF HasError(statusResult)
                                         THEN "error" ELSE "ok"]
                 /\ UNCHANGED mainloop
            ELSE /\ m' = [Counted(h.m, "/Status/ErrorCount")
                            EXCEPT !["/Status/LastError"] = Some("Update failed")]
                 /\ timer' = TimerAfter(FALSE)
                 /\ cycle' = [how |-> "failed", tries |-> statusTries,
                              status |-> IF HasError(statusResult)
                                         THEN "error" ELSE "ok"]
                 /\ UNCHANGED <<last_update, mainloop>>
         /\ UNCHANGED <<invProtocol, now>>

\* The poll timer is due and the main loop calls _update.
TimerDue ==
    /\ timer = "scheduled"
    /\ mainloop = "running"
    /\ Val(m["/Status/UpdateCount"]) + Val(m["/Status/ErrorCount"]) < MaxCycles

\* _update with _update_PI18, on the variables of the service.
Poll_PI18 ==
    /\ TimerDue
    /\ invProtocol = "PI18"
    /\ \E devOk \in WhenDue(BOOLEAN, TRUE),
          s \in WhenDue(Scripts, <<NoResult>>),
          sys \in WhenDue(_connectToDc(systemDcPower), systemDcPower) :
          LET raw == runInverterCommands(<<"PIRI">>, devOk, <<s>>)
              n == IF devOk THEN RetryLoop(s, 0).tries ELSE 0
          IN  _update(_update_PI18(raw, Stamped(m), v, queued_updates, dcLast,
                                   chargeLast), sys, n, raw[1])

\* A poll under PI18.
Update_PI18 == Poll_PI18 /\ UNCHANGED <<dvars, pvars, tvars>>

\* The paths a client writes to, and the values it writes.
ChangePaths == {"/Mode", "/Settings/Reset"}
ChangeValues == {1, 3}

\* _change_PI18(path, value): the change is queued and accepted.
_change_PI18(path, value, q) == Append(q, <<path, value>>)

\* _change(path, value) under PI18, on the variables of the service.
_change(path, value) ==
    /\ mainloop' = IF path = "/Settings/Reset" THEN "quit" ELSE mainloop
    /\ queued_updates' = _change_PI18(path, value, queued_updates)
    /\ cycle' = NoCycle
    /\ UNCHANGED <<invProtocol, now, last_update, m, v, timer, systemDcPower,
                   dcLast, chargeLast>>

\* A client writes a path and the main loop calls _change.
Change_PI18 ==
    /\ mainloop = "running"
    /\ invProtocol = "PI18"
    /\ Len(queued_updates) < MaxQueue
    /\ \E path \in ChangePaths, value \in ChangeValues : _change(path, value)
    /\ UNCHANGED <<dvars, pvars, tvars>>

Next == Tick \/ Update_PI18 \/ Change_PI18

Init == DispatchIdle /\ ServiceInit /\ Unfollowed

Spec == Init /\ [][Next]_vars

\* ------------------------------------------------- the main loop
\* The requests clients send while the loop is followed, at most.
MaxRequests == 2

\* mainloop.run() runs one callback at a time, to its end, on the one
\* thread of the process: a callback is started when none is running.
LoopFree_Reentrant(l) == TRUE
LoopFree(l) == l.active = <<>>

\* main() has constructed the service and enters mainloop.run(): no
\* callback is running, no request is waiting.
LoopInit ==
    /\ DispatchIdle
    /\ ServiceInit
    /\ NoRequest
    /\ inp = None
    /\ detect = None
    /\ invData = None
    /\ diag = None
    /\ loop = [active |-> <<>>, inflight |-> 0, timerReady |-> FALSE,
               waiting |-> <<>>, current |-> None, arrived |-> 0,
               served |-> <<>>]

\* A client's write arrives on the bus, whatever the loop is doing.
RequestArrives ==
    /\ mainloop = "running"
    /\ loop.arrived < MaxRequests
    /\ \E path \in ChangePaths, value \in ChangeValues :
         loop' = [loop EXCEPT
                    !.arrived = @ + 1,
                    !.waiting = Append(@, [id |-> loop.arrived + 1,
                                           path |-> path, value |-> value,
                                           during |-> loop.active])]
    /\ UNCHANGED <<dvars, svars, tvars, inp, detect, invData, diag>>

\* The poll timer's period elapses, whatever the loop is doing.
TimerFires ==
    /\ timer = "scheduled"
    /\ mainloop = "running"
    /\ ~loop.timerReady
    /\ loop' = [loop EXCEPT !.timerReady = TRUE]
    /\ UNCHANGED <<dvars, svars, tvars, inp, detect, invData, diag>>

\* The loop calls _update; unless throttled, _update_PI18 enters
\* runInverterCommands.
PollBegins ==
    /\ LoopFree(loop)
    /\ loop.timerReady
    /\ TimerDue
    /\ loop' = [loop EXCEPT !.active = Append(@, "poll"),
                            !.timerReady = FALSE,
                            !.inflight = IF Throttled THEN @ ELSE @ + 1]
    /\ UNCHANGED <<dvars, svars, tvars, inp, detect, invData, diag>>

\* runInverterCommands returns, and _update with it.
PollReturns ==
    /\ loop.active # <<>>
    /\ loop.active[Len(loop.active)] = "poll"
    /\ Poll_PI18
    /\ loop' = [loop EXCEPT !.active = SubSeq(@, 1, Len(@) - 1),
                            !.inflight = IF Throttled THEN @ ELSE @ - 1]
    /\ UNCHANGED <<dvars, tvars, inp, detect, invData, diag>>

\* The loop takes the oldest waiting write and calls _change with it.
ChangeBegins ==
    /\ LoopFree(loop)
    /\ mainloop = "running"
    /\ loop.waiting # <<>>
    /\ loop' = [loop EXCEPT !.active = Append(@, "change"),
                            !.current = Some(Head(loop.waiting)),
                            !.waiting = Tail(@)]
    /\ UNCHANGED <<dvars, svars, tvars, inp, detect, invData, diag>>

\* _change returns (_change_PI18 makes no call of runInverterCommands).
ChangeReturns ==
    /\ loop.active # <<>>
    /\ loop.active[Len(loop.active)] = "change"
    /\ _change(Val(loop.current).path, Val(loop.current).value)
    /\ loop' = [loop EXCEPT !.active = SubSeq(@, 1, Len(@) - 1),
                            !.current = None,
                            !.served = Append(@, <<Val(loop.current).id,
                                                   Val(loop.current).during>>)]
    /\ UNCHANGED <<dvars, tvars, inp, detect, invData, diag>>

LoopNext ==
    RequestArrives \/ TimerFires \/ PollBegins \/ PollReturns
        \/ ChangeBegins \/ ChangeReturns

SpecLoop == LoopInit /\ [][LoopNext]_vars

\* ------------------------------------------------------- detection
\* max_retries of _detect_protocol.
max_retries == 3

\* The identification data _detect_protocol falls back to: after a failed
\* attempt, and after the last one.
FallbackData == <<"INFINISOLAR_V", "1.0.0">>
UnknownData == <<"UNKNOWN", "1.0.0">>

\* response and not any('error' in r for r in response)
NoErrorEntry(response) ==
    Len(response) > 0 /\ \A k \in 1..Len(response) : ~HasError(response[k])

\* successful_commands >= 1: some entry is a dict holding '_command'.
\* tagged[k]: the k-th entry holds that key (the device class decides).
Structured_Always(response, tagged) == TRUE
Structured_Never(response, tagged) == FALSE
Structured(response, tagged) == \E k \in 1..Len(response) : tagged[k]

\* base_delay, in milliseconds (1.0 s).
base_delay == 1000
\* time.sleep(0.2) after the backoff wait of _detect_protocol, in milliseconds.
StabilizationDelay == 200

\* The waits slept after a failed attempt: base_delay * (2 ** attempt) and
\* the stabilization delay, when another attempt follows.
DetectBackoff(a) ==
    IF a < max_retries - 1
    THEN base_delay * Pow2(a) + StabilizationDelay
    ELSE 0

\* _detect_protocol is entered: no probe made, nothing returned.  "wait" is
\* the time slept after the latest attempt, "tries" the attempts its batch
\* made of the identification command.
DetectStart ==
    [pc |-> "probing", attempt |-> 0, returned |-> "none", probes |-> 0,
     good |-> FALSE, response |-> <<>>, wait |-> 0, tries |-> 0]

\* __init__ up to the call of _detect_protocol: the dialect preset, no
\* identification data, no probe made.  The paths and the poll timer are
\* those __init__ creates once detection has returned.
DetectInit ==
    /\ DispatchIdle
    /\ ServiceInit
    /\ NoRequest
    /\ inp = None
    /\ diag = None
    /\ loop = None
    /\ invData = <<>>
    /\ detect = DetectStart

\* The dialect named in the docstring of _detect_protocol.
ConfirmedProtocol_AsDocumented == "PI18SV"

\* self._invProtocol = 'PI18': what _detect_protocol assigns when an attempt
\* commits, when it falls back, and after the last attempt.
ConfirmedProtocol == "PI18"

\* One pass of `for attempt in range(max_retries)`.  A pass that ends with
\* `continue` assigns nothing to self._invProtocol.
Probe ==
    /\ detect.pc = "probing"
    /\ detect.attempt < max_retries
    /\ \E devOk \in BOOLEAN, s \in Scripts, tag \in BOOLEAN :
         LET response == runInverterCommands(<<"PIRI">>, devOk, <<s>>)
             tagged == [k \in 1..Len(response) |-> tag]
             good == NoErrorEntry(response)
                       /\ \E k \in 1..Len(response) : tagged[k]
             made == IF devOk THEN RetryLoop(s, 0).tries ELSE 0
         IN  IF NoErrorEntry(response)
             THEN IF Structured(response, tagged)
                  THEN /\ invData' = response
                       /\ detect' = [detect EXCEPT !.pc = "returned",
                                                   !.returned = "True",
                                                   !.probes = @ + 1,
                                                   !.good = @ \/ good,
                                                   !.response = response,
                                                   !.wait = 0,
                                                   !.tries = made]
                  ELSE /\ invData' = invData
                       /\ detect' = [detect EXCEPT !.attempt = @ + 1,
                                                   !.probes = @ + 1,
                                                   !.good = @ \/ good,
                                                   !.response = response,
                                                   !.wait = 0,
                                                   !.tries = made]
             ELSE /\ invData' = FallbackData
                  /\ detect' = [detect EXCEPT !.attempt = @ + 1,
                                              !.probes = @ + 1,
                                              !.good = @ \/ good,
                                              !.response = response,
                                              !.wait =
                                                 DetectBackoff(detect.attempt),
                                              !.tries = made]
    /\ invProtocol' =
          IF detect'.pc = "returned" \/ ~NoErrorEntry(detect'.response)
          THEN ConfirmedProtocol
          ELSE invProtocol
    /\ UNCHANGED <<dvars, tvars, inp, diag, loop, now, last_update, m, v,
                   queued_updates, timer, mainloop, systemDcPower, dcLast,
                   chargeLast, cycle>>

\* The code after the loop: the defaults are set and False is returned; the
\* local `response` of the last pass is gone with the frame.
DetectionFails ==
    /\ detect.pc = "probing"
    /\ detect.attempt = max_retries
    /\ invProtocol' = ConfirmedProtocol
    /\ invData' = UnknownData
    /\ detect' = [detect EXCEPT !.pc = "returned", !.returned = "False",
                                !.response = <<>>]
    /\ UNCHANGED <<dvars, tvars, inp, diag, loop, now, last_update, m, v,
                   queued_updates, timer, mainloop, systemDcPower, dcLast,
                   chargeLast, cycle>>

\* setupDefaultPaths reads self._invData[1] (the second entry): an
\* IndexError leaves __init__ when the list is shorter.
HasFirmwareEntry(data) == Len(data) >= 2

\* __init__ has returned and main() runs the main loop.
Constructed == detect.pc = "returned" /\ HasFirmwareEntry(invData)
ServiceTick == Constructed /\ Tick
ServicePoll == Constructed /\ Update_PI18

DetectNext == Probe \/ DetectionFails \/ ServiceTick \/ ServicePoll

SpecDetect == DetectInit /\ [][DetectNext]_vars

\* ------------------------------- the diagnosis tool's library probe
\* test_mppsolar_library (src/diagnose_inverter.py): the candidates and
\* the commands tried under each, in the order of the two lists.
protocols == <<"PI18SV", "PI30", "PI16", "PI17", "PI18">>
diag_commands == <<"PI", "ID", "GS", "PIRI">>

\* result and not (isinstance(result, dict) and 'error' in result), on what
\* device.run_command did (a raise is caught and is no success).
DiagValid(o) == o.form \notin {"falsy", "raise", "dict_error"}

\* for protocol in protocols: the candidate after candidate p.
NextProtocol_SkipsOne(p) == p + 2
NextProtocol(p) == p + 1

\* tried[p]: the commands run under candidate p; -1: its device object
\* could not be constructed.
DiagStart ==
    [pc |-> "device", p |-> 1, c |-> 1, ret |-> <<>>,
     tried |-> [q \in 1..Len(protocols) |-> 0]]

\* The device object of the next candidate is constructed, or that raises
\* and the candidate is given up.
DiagDevice ==
    /\ diag.pc = "device"
    /\ diag.p <= Len(protocols)
    /\ \E ok \in BOOLEAN :
         diag' = IF ok
                 THEN [diag EXCEPT !.pc = "command", !.c = 1]
                 ELSE [diag EXCEPT !.tried[diag.p] = -1,
                                   !.p = NextProtocol(diag.p)]
    /\ UNCHANGED <<dvars, svars, tvars, inp, detect, invData, loop>>

\* One command under the current candidate: a valid result is returned
\* with the candidate, anything else moves on.
DiagCommand ==
    /\ diag.pc = "command"
    /\ \E o \in Outcomes :
         diag' = IF DiagValid(o)
                 THEN [diag EXCEPT !.tried[diag.p] = @ + 1,
                                   !.pc = "returned",
                                   !.ret = <<protocols[diag.p],
                                             diag_commands[diag.c]>>]
                 ELSE IF diag.c < Len(diag_commands)
                 THEN [diag EXCEPT !.tried[diag.p] = @ + 1, !.c = @ + 1]
                 ELSE [diag EXCEPT !.tried[diag.p] = @ + 1, !.pc = "device",
                                   !.p = NextProtocol(diag.p)]
    /\ UNCHANGED <<dvars, svars, tvars, inp, detect, invData, loop>>

\* return False, None, None, None
DiagGivesUp ==
    /\ diag.pc = "device"
    /\ diag.p > Len(protocols)
    /\ diag' = [diag EXCEPT !.pc = "returned", !.ret = <<"False">>]
    /\ UNCHANGED <<dvars, svars, tvars, inp, detect, invData, loop>>

\* Both probes, each from its start; the tool is run once the service's
\* detection has returned (they are separate programs on one serial port).
ProbingInit ==
    /\ DispatchIdle
    /\ ServiceInit
    /\ NoRequest
    /\ inp = None
    /\ loop = None
    /\ invData = <<>>
    /\ detect = DetectStart
    /\ diag = DiagStart

Diagnosis == DiagDevice \/ DiagCommand \/ DiagGivesUp

ProbingNext == Probe \/ DetectionFails \/ (detect.pc = "returned" /\ Diagnosis)

SpecProbing == ProbingInit /\ [][ProbingNext]_vars

\* ---------------------------------- the handlers of the other dialects
\* The values of self._invProtocol whose handlers are followed here.
Dialects == {"PI18", "PI30", "PI17"}

\* What one command of a three-command poll is answered with: data at once,
\* or silence on every attempt.
HandlerOutcomes == {o \in Outcomes : o.form \in {"dict_data", "falsy"}}
HandlerScripts ==
    {s \in Scripts : \A k \in 1..Len(s) : s[k] \in HandlerOutcomes /\ s[k] = s[1]}

\* The calls of runInverterCommands with three commands: the device object
\* is constructed and each command has its script, or it is not.
NoAnswers == [i \in 1..3 |-> CHOOSE s \in HandlerScripts : Len(s) = retries]
AllPollCalls ==
    {[devOk |-> TRUE, scripts |-> ss] : ss \in [1..3 -> HandlerScripts]}
    \cup {[devOk |-> FALSE, scripts |-> NoAnswers]}

\* The calls of the polls that draw their answers as they run: the warnings
\* command fares as the status command does.
PollCalls == {c \in AllPollCalls : c.scripts[3] = c.scripts[1]}

\* The fields of a QPIGS / GS answer the handlers read.
StatusFields ==
    [battery_voltage : {None, Some(0), Some(24)},
     battery_discharge_current : {Some(5)},
     battery_charging_current : {Some(2)},
     is_load_on : {Some(0), Some(1)},
     is_charging_on : {Some(0), Some(1)},
     ac_output_voltage : {Some(230)},
     ac_output_frequency : {Some(50)},
     ac_output_active_power : {None, Some(0), Some(50)},
     ac_output_aparent_power : {Some(60)}]
NoStatusFields == CHOOSE f \in StatusFields : TRUE

\* The fields of a QMOD / MOD answer.
ModeFields ==
    [device_mode : {None, Some("Battery"), Some("Line"), Some("Standby"),
                    Some("Fault")}]
NoModeFields == [device_mode |-> None]

\* The flags of a QPIWS / WS answer; the polls that draw their answers as
\* they run are answered with no warning raised.
WarnFields ==
    [overload_fault : {None, Some(0), Some(1)},
     line_fail_warning : {None, Some(0), Some(1)}]
NoWarnFields == [overload_fault |-> None, line_fail_warning |-> None]
ClearWarnFields == [overload_fault |-> Some(0), line_fail_warning |-> Some(0)]

\* self._systemDcPower.get_value()
DcReadings == {None, Some(0), Some(200)}

\* The inputs of one three-command poll: the call, the fields of the
\* answers that carry some, the DC reading when the import exists.
PollInputs(sys) ==
    UNION {
      UNION {
        {[call |-> c, f |-> f, g |-> g,
          w |-> IF c.devOk /\ Carries(execute_command(c.scripts[3][1]))
                THEN ClearWarnFields ELSE NoWarnFields,
          dcSystem |-> d] :
            d \in IF sys = "None" THEN {None} ELSE DcReadings} :
        f \in IF c.devOk /\ Carries(execute_command(c.scripts[1][1]))
              THEN StatusFields ELSE {NoStatusFields},
        g \in IF c.devOk /\ Carries(execute_command(c.scripts[2][1]))
              THEN ModeFields ELSE {NoModeFields}} :
      c \in PollCalls}

NoPoll ==
    [call |-> [devOk |-> FALSE, scripts |-> NoAnswers], f |-> NoStatusFields,
     g |-> NoModeFields, w |-> NoWarnFields, dcSystem |-> None]

\* _update with _update_PI30, the import of the DC reading being sys and
\* the poll's inputs i.
Polled_PI30(sys, i) ==
    LET raw == runInverterCommands(<<"QPIGS", "QMOD", "QPIWS">>,
                                   i.call.devOk, i.call.scripts)
        n == IF i.call.devOk THEN RetryLoop(i.call.scripts[1], 0).tries ELSE 0
    IN  _update(_update_PI30(raw, i.f, i.g, i.w, i.dcSystem, Stamped(m), v,
                             queued_updates, dcLast, chargeLast),
                sys, n, raw[1])

\* A poll under PI30.
Update_PI30 ==
    /\ TimerDue
    /\ invProtocol = "PI30"
    /\ \E sys \in WhenDue(_connectToDc(systemDcPower), systemDcPower) :
         \E i \in WhenDue(PollInputs(sys), NoPoll) : Polled_PI30(sys, i)
    /\ UNCHANGED <<dvars, pvars, tvars>>

\* _update with _update_PI17.
Polled_PI17(sys, i) ==
    LET raw == runInverterCommands(<<"GS", "MOD", "WS">>,
                                   i.call.devOk, i.call.scripts)
        n == IF i.call.devOk THEN RetryLoop(i.call.scripts[1], 0).tries ELSE 0
    IN  _update(_update_PI17(raw, i.f, i.g, i.w, Stamped(m), v,
                             queued_updates, dcLast, chargeLast),
                sys, n, raw[1])

\* A poll under PI17.
Update_PI17 ==
    /\ TimerDue
    /\ invProtocol = "PI17"
    /\ \E sys \in WhenDue(_connectToDc(systemDcPower), systemDcPower) :
         \E i \in WhenDue(PollInputs("None"), NoPoll) : Polled_PI17(sys, i)
    /\ UNCHANGED <<dvars, pvars, tvars>>

\* ------------------------------------- polls with their answers fixed
\* The DC system power readings, a net charge included.
ProjectDcReadings == DcReadings \cup {Some(-40), Some(50)}

\* Every answer a three-command poll can be given.
ProjectInputs ==
    UNION {
      UNION {
        {[call |-> c, f |-> f, g |-> g, w |-> w, dcSystem |-> d] :
            d \in ProjectDcReadings} :
        f \in IF c.devOk /\ Carries(execute_command(c.scripts[1][1]))
              THEN StatusFields ELSE {NoStatusFields},
        g \in IF c.devOk /\ Carries(execute_command(c.scripts[2][1]))
              THEN ModeFields ELSE {NoModeFields},
        w \in IF c.devOk /\ Carries(execute_command(c.scripts[3][1]))
              THEN WarnFields ELSE {NoWarnFields}} :
      c \in AllPollCalls}

\* The fields of a GS answer _update_PI18SV reads, voltages and the
\* frequency in tenths.
StatusFields_PI18SV ==
    {[k \in {"Battery Voltage", "Battery Discharge Current",
             "Battery Charge Current", "AC Output Voltage",
             "AC Output Frequency", "AC Output Active Power",
             "AC Output Apparent Power"} |->
        CASE k = "Battery Voltage" -> bv
          [] k = "Battery Discharge Current" -> Some(5)
          [] k = "Battery Charge Current" -> cc
          [] k = "AC Output Voltage" -> Some(2300)
          [] k = "AC Output Frequency" -> Some(500)
          [] k = "AC Output Active Power" -> Some(50)
          [] OTHER -> Some(60)] :
     bv \in {None, Some(240)}, cc \in {None, Some(0), Some(2)}}

\* The working mode tokens of a MOD answer: the six of the protocol, one it
\* does not have, and none.
ModeFields_PI18SV ==
    [device_mode : {None, Some("00"), Some("01"), Some("02"), Some("03"),
                    Some("04"), Some("05"), Some("99")}]

\* The flags of a FLAG answer _update_PI18SV derives alarms from.
FlagFields == [{"D", "G"} -> {None, Some(0), Some(1)}]
NoFlagFields == [k \in {"D", "G"} |-> None]

\* The calls of runInverterCommands(['PIRI']) for the power batch: answered
\* at once, or the device object is not constructed.
PowerCalls ==
    {[devOk |-> ok, scripts |-> <<<<[form |-> "dict_data", cause |-> "none"]>>>>] :
        ok \in BOOLEAN}

\* Every answer a PI18SV poll can be given.
ProjectInputs_PI18SV ==
    UNION {
      UNION {
        {[call |-> c, f |-> f, g |-> g, w |-> w, dcSystem |-> None,
          power |-> pw] : pw \in PowerCalls} :
        f \in IF c.devOk /\ Carries(execute_command(c.scripts[1][1]))
              THEN StatusFields_PI18SV
              ELSE {CHOOSE x \in StatusFields_PI18SV : TRUE},
        g \in IF c.devOk /\ Carries(execute_command(c.scripts[2][1]))
              THEN ModeFields_PI18SV ELSE {NoModeFields},
        w \in IF c.devOk /\ Carries(execute_command(c.scripts[3][1]))
              THEN FlagFields ELSE {NoFlagFields}} :
      c \in AllPollCalls}

\* The reading the handler gets: none while the import does not exist.
Reading(sys, i) == [i EXCEPT !.dcSystem = IF sys = "None" THEN None ELSE @]

\* The service under PI30, PI17 or PI18SV, its polls answered the same way
\* each time; only _update_PI30 reads the DC system power.
ProjectInit ==
    /\ DispatchIdle
    /\ \/ invProtocol = "PI30" /\ inp \in ProjectInputs
       \/ invProtocol = "PI17" /\ inp \in ProjectInputs /\ inp.dcSystem = None
       \/ invProtocol = "PI18SV" /\ inp \in ProjectInputs_PI18SV
    /\ ServiceStart
    /\ NoRequest
    /\ detect = None
    /\ invData = None
    /\ diag = None
    /\ loop = None

Project_PI30 ==
    /\ TimerDue
    /\ invProtocol = "PI30"
    /\ \E sys \in WhenDue(_connectToDc(systemDcPower), systemDcPower) :
         Polled_PI30(sys, Reading(sys, inp))
    /\ UNCHANGED <<dvars, pvars, tvars>>

Project_PI17 ==
    /\ TimerDue
    /\ invProtocol = "PI17"
    /\ \E sys \in WhenDue(_connectToDc(systemDcPower), systemDcPower) :
         Polled_PI17(sys, Reading("None", inp))
    /\ UNCHANGED <<dvars, pvars, tvars>>

\* _update with _update_PI18SV.
Project_PI18SV ==
    /\ TimerDue
    /\ invProtocol = "PI18SV"
    /\ \E sys \in WhenDue(_connectToDc(systemDcPower), systemDcPower) :
         LET raw_status == runInverterCommands(<<"GS", "MOD", "FLAG">>,
                                               inp.call.devOk, inp.call.scripts)
             raw_power == runInverterCommands(<<"PIRI">>, inp.power.devOk,
                                              inp.power.scripts)
             n == IF inp.call.devOk
                  THEN RetryLoop(inp.call.scripts[1], 0).tries ELSE 0
         IN  _update(_update_PI18SV(raw_status, raw_power, inp.f, inp.g, inp.w,
                                    Stamped(m), v, queued_updates, dcLast,
                                    chargeLast),
                     sys, n, raw_status[1])
    /\ UNCHANGED <<dvars, pvars, tvars>>

ProjectNext == Tick \/ Project_PI30 \/ Project_PI17 \/ Project_PI18SV

SpecProject == ProjectInit /\ [][ProjectNext]_vars

\* ------------------------------------------------- the change requests
\* '{:02d}'.format(n) and '{:03d}'.format(n), for the numbers written here.
Pad2(n) == IF n < 10 THEN "0" \o ToString(n) ELSE ToString(n)
Pad3(n) == IF n < 10 THEN "00" \o ToString(n) ELSE "0" \o Pad2(n)

\* The batches setChargerPriority, setOutputSource and
\* setMaxUtilityChargingCurrent hand to runInverterCommands.
setChargerPriority(priority) == <<"PCP" \o Pad2(priority)>>
setOutputSource(source) == <<"POP" \o Pad2(source)>>
setMaxUtilityChargingCurrent(current) == <<"MUCHGC" \o Pad3(current)>>

\* The charger-priority and the output-source commands.
PCPCommands == {"PCP" \o Pad2(n) : n \in 0..3}
POPCommands == {"POP" \o Pad2(n) : n \in 0..2}

\* A /Mode mapping under PI30 that sets the output source first.
Mode_PI30_OutputFirst(value) ==
    CASE value = 1 -> <<setChargerPriority(0)>>
      [] value = 2 -> <<setOutputSource(2), setChargerPriority(3)>>
      [] value = 3 -> <<setOutputSource(2), setChargerPriority(0)>>
      [] value = 4 -> <<setChargerPriority(3)>>
      [] OTHER -> <<>>

\* _change_PI30, path '/Mode': the calls of runInverterCommands it makes,
\* in the order the arguments of format() are evaluated.
Mode_PI30(value) ==
    CASE value = 1 -> <<setChargerPriority(0)>>
      [] value = 2 -> <<setChargerPriority(3), setOutputSource(2)>>
      [] value = 3 -> <<setChargerPriority(0), setOutputSource(2)>>
      [] value = 4 -> <<setChargerPriority(3)>>
      [] OTHER -> <<>>

\* _change_PI30(path, value): the calls of runInverterCommands it makes.
Calls_PI30(path, value) ==
    CASE path \in {"/Ac/In/1/CurrentLimit", "/Ac/In/2/CurrentLimit"} ->
            <<setMaxUtilityChargingCurrent(value)>>
      [] path = "/Mode" -> Mode_PI30(value)
      [] path = "/Settings/Charger" ->
            <<setChargerPriority(IF value \in {0, 1, 2} THEN value ELSE 3)>>
      [] path = "/Settings/Output" ->
            <<setOutputSource(IF value \in {0, 1} THEN value ELSE 2)>>
      [] OTHER -> <<>>

\* _change_PI30 appends (path, value) to self._queued_updates.
Queues_PI30(path) ==
    path \in {"/Ac/In/1/CurrentLimit", "/Ac/In/2/CurrentLimit", "/Mode",
              "/Settings/Charger", "/Settings/Output"}

\* _change_PI18SV(path, value): the calls of runInverterCommands it makes.
Calls_PI18SV(path, value) ==
    CASE path = "/Mode" ->
            (CASE value = 1 -> <<<<"PCP00", "POP00">>>>
               [] value = 2 -> <<<<"PCP02", "POP01">>>>
               [] value = 3 -> <<<<"PCP01", "POP02">>>>
               [] value = 4 -> <<<<"PCP02">>>>
               [] OTHER -> <<>>)
      [] path = "/Ac/In/1/CurrentLimit" -> <<<<"MUCHGC0," \o Pad3(value)>>>>
      [] path = "/Settings/Charger" ->
            <<<<IF value \in {0, 1, 2}
                THEN "PCP0" \o ToString(value) ELSE "PCP02">>>>
      [] path = "/Settings/Output" ->
            <<<<IF value \in {0, 1}
                THEN "POP0" \o ToString(value) ELSE "POP02">>>>
      [] OTHER -> <<>>

\* _change_PI18SV appends (path, value) to self._queued_updates.
Queues_PI18SV(path) ==
    path \in {"/Ac/In/1/CurrentLimit", "/Mode", "/Settings/Charger",
              "/Settings/Output"}

\* The calls the handler of each dialect makes, and whether it queues the
\* value: _change_PI17 does nothing, _change_PI18 only queues.
Calls(protocol, path, value) ==
    CASE protocol = "PI30" -> Calls_PI30(path, value)
      [] protocol = "PI18SV" -> Calls_PI18SV(path, value)
      [] OTHER -> <<>>
Queues(protocol, path) ==
    CASE protocol = "PI30" -> Queues_PI30(path)
      [] protocol = "PI18SV" -> Queues_PI18SV(path)
      [] protocol = "PI18" -> TRUE
      [] OTHER -> FALSE

\* The commands of one call that were handed to the device, in order.
RECURSIVE Transmitted(_, _, _, _)
Transmitted(cmds, scripts, i, sent) ==
    IF i > Len(cmds)
    THEN sent
    ELSE LET r == RetryLoop(scripts[i], 0).result
         IN  Transmitted(cmds, scripts, NextCommand(cmds, i, r),
                         Append(sent, cmds[i]))

\* What one call of runInverterCommands made by a change handler leaves:
\* the batch, whether the device object was constructed, the commands
\* handed to the device and the list returned.
CallRecord(cmds, o) ==
    [batch |-> cmds,
     devOk |-> o.devOk,
     sent |-> IF o.devOk
              THEN Transmitted(cmds, SubSeq(o.scripts, 1, Len(cmds)), 1, <<>>)
              ELSE <<>>,
     returned |-> runInverterCommands(cmds, o.devOk,
                                      SubSeq(o.scripts, 1, Len(cmds)))]

\* The paths a client writes to and the values it writes, mapped and
\* unmapped ones.
RequestPaths ==
    {"/Mode", "/Settings/Charger", "/Settings/Output",
     "/Ac/In/1/CurrentLimit", "/Ac/In/2/CurrentLimit", "/Settings/Reset"}
RequestValues == 0..5

\* How the device fares during one call: the device object is constructed
\* or not, each command is answered at once or on no attempt.
CallOutcomes ==
    {[devOk |-> ok, scripts |-> ss] :
        ok \in BOOLEAN, ss \in [1..2 -> HandlerScripts]}

\* _change(path, value) with the handler of the dialect `protocol`, the
\* calls it makes faring as oc tells.  The handlers return True on every
\* path the values written here take them through.
Requested(protocol, path, value, oc) ==
    LET calls == Calls(protocol, path, value)
    IN  /\ mainloop' = IF path = "/Settings/Reset" THEN "quit" ELSE mainloop
        /\ queued_updates' = IF Queues(protocol, path)
                             THEN Append(queued_updates, <<path, value>>)
                             ELSE queued_updates
        /\ req' = [path |-> path, value |-> value,
                   calls |-> [k \in 1..Len(calls) |->
                                 CallRecord(calls[k], oc[k])],
                   accepted |-> TRUE]
        /\ cycle' = NoCycle
        /\ UNCHANGED <<invProtocol, now, last_update, m, v, timer,
                       systemDcPower, dcLast, chargeLast>>

\* A client writes a path and the main loop calls _change.
Request ==
    /\ mainloop = "running"
    /\ Len(queued_updates) < MaxQueue
    /\ \E path \in RequestPaths, value \in RequestValues :
         \E oc \in [1..Len(Calls(invProtocol, path, value)) -> CallOutcomes] :
            Requested(invProtocol, path, value, oc)
    /\ UNCHANGED <<dvars, pvars, tool>>

\* _change dispatching to _change_PI30, _change_PI17, _change_PI18 and
\* _change_PI18SV.
Request_PI30 == invProtocol = "PI30" /\ Request
Request_PI17 == invProtocol = "PI17" /\ Request
Request_PI18 == invProtocol = "PI18" /\ Request
Request_PI18SV == invProtocol = "PI18SV" /\ Request

\* The service under each dialect, and the writes of its clients.
RequestInit ==
    /\ DispatchIdle
    /\ invProtocol \in {"PI30", "PI17", "PI18", "PI18SV"}
    /\ ServiceStart
    /\ Unfollowed

RequestNext ==
    Tick \/ Request_PI30 \/ Request_PI17 \/ Request_PI18 \/ Request_PI18SV

SpecRequests == RequestInit /\ [][RequestNext]_vars

\* ------------------------------------- polls that record their inputs
\* The inputs of a PI30 poll whose three commands are answered: the fields
\* of the status answer, a mode token, the DC reading when the import exists.
EstimatorInputs(sys) ==
    {[call |-> [devOk |-> TRUE,
                scripts |-> [k \in 1..3 |->
                               <<[form |-> "dict_data", cause |-> "none"]>>]],
      f |-> f, g |-> g, w |-> ClearWarnFields, dcSystem |-> d] :
        f \in {x \in StatusFields : x.battery_voltage # Some(0)},
        g \in {[device_mode |-> None], [device_mode |-> Some("Line")]},
        d \in IF sys = "None" THEN {None}
              ELSE {None, Some(50), Some(200)}}

\* The inputs of a poll with the carries it started from.
WithCarries(i) ==
    [call |-> i.call, f |-> i.f, g |-> i.g, w |-> i.w, dcSystem |-> i.dcSystem,
     dcLast |-> dcLast, chargeLast |-> chargeLast]

\* The service under PI30, each poll drawing its answers and recording
\* them.
EstimatorInit ==
    /\ DispatchIdle
    /\ invProtocol = "PI30"
    /\ ServiceStart
    /\ NoRequest
    /\ inp = WithCarries(NoPoll)
    /\ detect = None
    /\ invData = None
    /\ diag = None
    /\ loop = None

Estimate_PI30 ==
    /\ TimerDue
    /\ invProtocol = "PI30"
    /\ \E sys \in WhenDue(_connectToDc(systemDcPower), systemDcPower) :
         \E i \in WhenDue(EstimatorInputs(sys), NoPoll) :
            /\ Polled_PI30(sys, i)
            /\ inp' = WithCarries(i)
    /\ UNCHANGED <<dvars, tvars, detect, invData, diag, loop>>

EstimatorNext == Tick \/ Estimate_PI30

SpecEstimators == EstimatorInit /\ [][EstimatorNext]_vars

\* self._invProtocol holding each of the values _update dispatches on.
InitHandlers ==
    DispatchIdle /\ invProtocol \in Dialects /\ ServiceStart /\ Unfollowed

NextHandlers ==
    Tick \/ Update_PI18 \/ Update_PI30 \/ Update_PI17 \/ Change_PI18

SpecHandlers == InitHandlers /\ [][NextHandlers]_vars

\* ------------------------------------------------ dispatcher claims
Positions == 1..Len(commands)

\* The commands whose retry loop has ended.
Finished(i) == i \in Positions /\ (i < cmdIdx \/ pc = "done") /\ dev = "ok"

C4_EveryCommandAttempted ==
    pc = "done" => \A i \in Positions : tries[i] >= 1

\* C4 amended: when the device object was constructed, every command of a
\* returned batch was attempted at least once, whichever commands failed;
\* when its construction failed, no command was attempted.
C4_AttemptedWhenConstructed ==
    pc = "done" =>
        \A i \in Positions :
            /\ dev = "ok" => tries[i] >= 1
            /\ dev # "ok" => tries[i] = 0

\* The second command attempted after the first failed on all its attempts.
C4_Witness ==
    /\ pc = "done"
    /\ dev = "ok"
    /\ Len(commands) = 2
    /\ tries[1] = retries
    /\ HasError(lastTried[1])
    /\ tries[2] >= 1

C7_ExponentialBackoff ==
    \A i \in Positions :
        /\ \A k \in 1..Len(waits[i]) : waits[i][k] = retry_delay * (2 ^ (k - 1))
        /\ \A k \in 1..(Len(waits[i]) - 1) : waits[i][k] < waits[i][k + 1]
        /\ Finished(i) => Len(waits[i]) = tries[i] - 1
        /\ (pc = "loop" /\ i = cmdIdx) => Len(waits[i]) = tries[i]

\* A command that failed three times: two waits, 0.5 s then 1 s.
C7_Witness ==
    /\ pc = "done"
    /\ Len(commands) >= 1
    /\ tries[1] = retries
    /\ HasError(results[1])
    /\ waits[1] = <<500, 1000>>

UpdateCount == Val(m["/Status/UpdateCount"])
ErrorCount == Val(m["/Status/ErrorCount"])

\* The telemetry paths of the multi service.
Telemetry ==
    {"/Dc/0/Voltage", "/Dc/0/Current", "/Ac/Out/L1/V", "/Ac/Out/L1/F",
     "/Ac/Out/L1/P", "/Ac/Out/L1/S", "/Ac/In/1/L1/P"}

\* C2: after a poll cycle that failed, the periodic poll is still
\* scheduled (so that a later cycle is attempted).
C2_PollStaysScheduled ==
    cycle.how = "failed" => timer = "scheduled"

C10_OneCounterPerCycle ==
    [][cycle'.how # "none" =>
          LET du == Val(m'["/Status/UpdateCount"]) - UpdateCount
              de == Val(m'["/Status/ErrorCount"]) - ErrorCount
          IN  IF now - last_update < update_interval
              THEN du = 0 /\ de = 0 /\ cycle'.how = "throttled"
              ELSE /\ <<du, de>> \in {<<1, 0>>, <<0, 1>>}
                   /\ du = 1 <=> cycle'.how = "success"
                   /\ de = 1 <=> cycle'.how \in {"failed", "raised"}
                   /\ (cycle'.tries = retries /\ cycle'.status = "error")
                          => <<du, de>> = <<0, 1>>]_vars

\* After a successful cycle, one whose status command failed three times:
\* one error counted.
C10_Witness ==
    /\ cycle.how = "failed"
    /\ cycle.tries = retries
    /\ cycle.status = "error"
    /\ UpdateCount = 1
    /\ ErrorCount = 1

\* C3 as stated: the main loop is never stopped by a poll, whatever the
\* inverter answers and whichever dialect's handler is polling.
C3_NoResponseStopsMainLoop == cycle.how # "none" => mainloop = "running"

\* ------------------------------------------------ detection claims
\* C11 as stated, over the window the clock covers: once a detection pass
\* has ended without a match, a probe beyond that pass's max_retries has
\* been made by the time the clock has run MaxTicks seconds, whatever the
\* polls in between did.
C11_DetectionRunsAgain ==
    (detect.returned = "False" /\ now = StartTime + MaxTicks)
        => detect.probes > max_retries

\* C12: _detect_protocol returns True exactly when some probe attempt
\* returned a batch with no error entry and a structured response, and then
\* self._invData is that batch; when it returns False self._invData is the
\* fallback identification data.
C12_DetectionResult ==
    detect.pc = "returned" =>
        /\ detect.returned = "True" <=> detect.good
        /\ detect.returned = "True" => invData = detect.response
        /\ detect.returned = "False" => invData = UnknownData

C12_Witness ==
    /\ detect.pc = "returned"
    /\ detect.returned = "True"
    /\ detect.probes = 2
    /\ invData = <<[form |-> "dict_empty", cause |-> "none"]>>

\* C13: the candidates are probed in the order of the declared list and the
\* first that yields a valid response is the one selected: every earlier
\* candidate was probed to the end without one (or could not be set up), no
\* later candidate is probed, and nothing is probed after the match.
\* _detect_protocol has the one candidate PI18 and makes no probe after the
\* attempt that matched.
C13_FirstMatchWins ==
    /\ \A q \in 1..Len(protocols) :
          /\ diag.tried[q] # 0 => q <= diag.p
          /\ (q < diag.p /\ q <= Len(protocols)) =>
                diag.tried[q] \in {-1, Len(diag_commands)}
    /\ (diag.pc = "returned" /\ diag.ret # <<"False">>) =>
          /\ diag.p \in 1..Len(protocols)
          /\ diag.ret = <<protocols[diag.p], diag_commands[diag.tried[diag.p]]>>
          /\ \A q \in 1..Len(protocols) : q > diag.p => diag.tried[q] = 0
    /\ (diag.pc = "returned" /\ diag.ret = <<"False">>) =>
          \A q \in 1..Len(protocols) :
              diag.tried[q] \in {-1, Len(diag_commands)}
    /\ detect.returned = "True" =>
          /\ invProtocol = "PI18"
          /\ detect.probes = detect.attempt + 1

C13_Witness ==
    /\ diag.pc = "returned"
    /\ diag.ret = <<"PI30", "GS">>
    /\ diag.tried[1] = Len(diag_commands)
    /\ detect.returned = "True"
    /\ detect.probes = 3

PollRan == cycle.how \in {"success", "failed", "raised"}

\* C16: a poll cycle whose status command's entry is an error ends with
\* /Alarms/Connection = 2.  Violated: _update_PI30 and _update_PI17 assign 0
\* to the alarm on every cycle that reaches their alarm block, and the
\* status_error exit of _update_PI18 assigns 1.
C16_StatusFailureRaisesConnection ==
    (PollRan /\ cycle.status = "error") => m["/Alarms/Connection"] = Some(2)

\* ---------------------------------------------------------------- C17
\* What the fixed poll's commands were answered with: the k-th command's
\* entry carries an answer.
Answered(k) ==
    inp.call.devOk /\ Carries(execute_command(inp.call.scripts[k][1]))

\* The mode token and the charging flag the device reported, as the handler
\* reads them: no token when the mode command went unanswered, charging off
\* when the status command did.
ReportedMode == IF Answered(2) THEN inp.g.device_mode ELSE None
ReportedCharging == Answered(1) /\ inp.f.is_charging_on = Some(1)

\* C17: the state a PI30 / PI17 poll publishes follows the table
\* Battery -> 9 (whatever the other fields), Line charging -> 3, Line -> 8,
\* Standby charging -> 6, Standby -> 0; under PI30 the acsystem service
\* publishes the same state.
C17_StateTable ==
    (PollRan /\ invProtocol \in {"PI30", "PI17"}) =>
        /\ ReportedMode = Some("Battery") => m["/State"] = Some(9)
        /\ ReportedMode = Some("Line") /\ ReportedCharging
               => m["/State"] = Some(3)
        /\ ReportedMode = Some("Line") /\ ~ReportedCharging
               => m["/State"] = Some(8)
        /\ ReportedMode = Some("Standby") /\ ReportedCharging
               => m["/State"] = Some(6)
        /\ ReportedMode = Some("Standby") /\ ~ReportedCharging
               => m["/State"] = Some(0)
        /\ invProtocol = "PI30" => v["/State"] = m["/State"]

\* A PI17 poll has published Storage for a device in Standby that charges.
C17_Witness ==
    /\ invProtocol = "PI17"
    /\ cycle.how = "success"
    /\ ReportedMode = Some("Standby")
    /\ ReportedCharging
    /\ m["/State"] = Some(6)

\* ---------------------------------------------------------------- C19
\* The device reported the load as not connected.
LoadOff == Answered(1) /\ inp.f.is_load_on = Some(0)

\* C19: with the bypass assumption on, a poll that ran to its end for a
\* device whose load is not connected leaves the output active and apparent
\* power None on the multi service and on the acsystem service.  Violated:
\* _update_PI30 clears the two paths on the multi service only.
C19_BypassClearsOutputPower ==
    (INVERTER_OFF_ASSUME_BYPASS /\ invProtocol \in {"PI30", "PI17"}
       /\ cycle.how = "success" /\ LoadOff) =>
        /\ m["/Ac/Out/L1/P"] = None
        /\ m["/Ac/Out/L1/S"] = None
        /\ invProtocol = "PI30" =>
               v["/Ac/Out/L1/P"] = None /\ v["/Ac/Out/L1/S"] = None

\* ---------------------------------------------------------------- C20
\* The device reported an output power of 0 with the load connected, and
\* the poll read a DC system power.
SmallOutput ==
    /\ invProtocol = "PI30"
    /\ Answered(1)
    /\ inp.f.ac_output_active_power = Some(0)
    /\ inp.f.is_load_on = Some(1)
    /\ inp.dcSystem # None

\* clamp(dcPower + carry + 27, 27, 100) - 27
Estimate(dcPower, carry) ==
    LET x == dcPower + carry + 27
        lower == IF x < 27 THEN 27 ELSE x
        upper == IF lower > 100 THEN 100 ELSE lower
    IN  upper - 27

\* What C20 promises of a poll that started with the carry dcLast.
EstimatePublished ==
    LET e == Estimate(Val(inp.dcSystem), dcLast)
    IN  /\ m'["/Ac/Out/L1/P"] = Some(e)
        /\ dcLast' = e
        /\ e \in 0..73
        /\ (inp.dcSystem = Some(50) /\ dcLast = 0) => e # 0

DerivedAlarms == {"/Alarms/Overload", "/Alarms/LineFail"}
FlagOf(path) ==
    IF invProtocol = "PI18SV"
    THEN IF path = "/Alarms/Overload" THEN "D" ELSE "G"
    ELSE IF path = "/Alarms/Overload"
         THEN "overload_fault" ELSE "line_fail_warning"

\* The flag as the response holds it: None when the response lacks it.
ReportedFlag(path) == IF Answered(3) THEN inp.w[FlagOf(path)] ELSE None

\* absent -> 1, 0 -> 0, 1 -> 2
ThreeValued(flag) ==
    CASE flag = None -> 1
      [] flag = Some(0) -> 0
      [] flag = Some(1) -> 2

\* C15: under every dialect, a poll that ran to its end publishes for each
\* derived alarm the three-valued image of its flag: 1 when the response
\* lacks the flag, 0 for a flag of 0, 2 for a flag of 1.  Violated:
\* get_flag of _update_PI18SV defaults an absent flag to 0.
C15_ThreeValuedAlarms ==
    cycle.how = "success" =>
        \A path \in DerivedAlarms :
            m[path] = Some(ThreeValued(ReportedFlag(path)))

\* ---------------------------------------------------------------- C18
\* The mode tokens each dialect has.
RecognizedModes ==
    IF invProtocol = "PI18SV"
    THEN {Some("00"), Some("01"), Some("02"), Some("03"), Some("04"),
          Some("05")}
    ELSE {Some("Battery"), Some("Line"), Some("Standby")}

\* C18: a poll that ran to its end on a mode response with an unrecognized
\* or missing mode token publishes state 0 and leaves /Alarms/Connection
\* raised.  Violated: the state is 0, and the alarm block of each handler
\* assigns 0 to /Alarms/Connection.
C18_UnknownModeRaisesConnection ==
    (cycle.how = "success" /\ Answered(2)
       /\ inp.g.device_mode \notin RecognizedModes) =>
        /\ m["/State"] = Some(0)
        /\ m["/Alarms/Connection"] # Some(0)

\* ---------------------------------------------------------------- C21
\* The triggering conditions of the two estimators, on the inputs the
\* latest poll recorded.
OutputEstimatorTriggered ==
    /\ inp.f.is_load_on = Some(1)
    /\ inp.f.ac_output_active_power = Some(0)
    /\ inp.dcSystem # None
ChargingEstimatorTriggered ==
    inp.f.is_charging_on = Some(1) /\ inp.dcSystem # None

\* C21: a PI30 poll in which an estimator's triggering condition is false
\* leaves that estimator's carry 0, whatever the carry was before; this
\* holds of the polls that end in an exception as well.
C21_CarryReset ==
    (PollRan /\ invProtocol = "PI30") =>
        /\ ~OutputEstimatorTriggered => dcLast = 0
        /\ ~ChargingEstimatorTriggered => chargeLast = 0

\* A poll that started with both carries set (73 and 170) has run with
\* the load not connected and the charger off: both carries are 0.
C21_Witness ==
    /\ cycle.how = "success"
    /\ inp.dcLast = 73
    /\ inp.chargeLast = 170
    /\ inp.f.is_load_on = Some(0)
    /\ inp.f.is_charging_on = Some(0)
    /\ dcLast = 0
    /\ chargeLast = 0

\* ---------------------------------------------------------------- C22
\* C22: a PI30 or PI17 poll derives the AC-input power for every status
\* response: it runs to its end, and publishes None when the state is 0.
\* Violated: with no battery voltage in the answer and a state other than
\* 0, the product with m['/Dc/0/Voltage'] raises.
C22_InputPowerDerived ==
    (PollRan /\ invProtocol \in {"PI30", "PI17"}) =>
        /\ cycle.how = "success"
        /\ m["/State"] = Some(0) => m["/Ac/In/1/L1/P"] = None

\* ---------------------------------------------------------------- C23
\* The latest step was a call of _change, other than the restart request.
Changed == req # None /\ cycle.how = "none" /\ req.path # "/Settings/Reset"

\* The commands of the latest request that were handed to the device, over
\* all its calls and in order.
RECURSIVE SentFrom(_)
SentFrom(k) ==
    IF k > Len(req.calls) THEN <<>> ELSE req.calls[k].sent \o SentFrom(k + 1)
Sent == SentFrom(1)

\* C23: a change request the dialect maps to no command is not accepted.
\* Violated: every handler returns True, _change_PI17 and _change_PI18 for
\* every request, _change_PI30 and _change_PI18SV for a /Mode value they do
\* not know.
C23_UnmappedIsRejected ==
    (Changed /\ req.calls = <<>>) => ~req.accepted

\* ---------------------------------------------------------------- C24
\* A command of the latest request was handed to the device and its entry
\* in the returned list is an error entry: it failed on all its attempts.
CommandFailed ==
    \E k \in DOMAIN req.calls :
        /\ req.calls[k].devOk
        /\ \E i \in DOMAIN req.calls[k].returned :
              HasError(req.calls[k].returned[i])

\* (path, value) of the latest request waits in self._queued_updates.
Queued ==
    \E i \in DOMAIN queued_updates : queued_updates[i] = <<req.path, req.value>>

\* C24: a change request one of whose commands failed on all attempts is
\* not accepted and its value is not queued for publication.  Violated:
\* the handlers drop the list runInverterCommands returns (PI30 logs it),
\* queue the value and return True.
C24_FailedCommandIsReported ==
    (Changed /\ CommandFailed) => ~req.accepted /\ ~Queued

\* ---------------------------------------------------------------- C25
\* The commands the latest request handed to the dispatcher, over all its
\* calls.
Submitted ==
    UNION {{req.calls[k].batch[i] : i \in DOMAIN req.calls[k].batch} :
              k \in DOMAIN req.calls}

\* The latest request is a /Mode value mapped to a charger-priority and an
\* output-source command.
BothMapped ==
    /\ Changed
    /\ req.path = "/Mode"
    /\ Submitted \cap PCPCommands # {}
    /\ Submitted \cap POPCommands # {}

\* The PCP command of the latest request has an error entry.
PCPFailed ==
    \E k \in DOMAIN req.calls : \E i \in DOMAIN req.calls[k].batch :
        /\ req.calls[k].batch[i] \in PCPCommands
        /\ HasError(req.calls[k].returned[i])

POPSent == \E i \in DOMAIN Sent : Sent[i] \in POPCommands

\* Wherever both commands went to the device, the PCP went first.
PCPFirst ==
    \A i, j \in DOMAIN Sent :
        (Sent[i] \in PCPCommands /\ Sent[j] \in POPCommands) => i < j

\* C25 as stated: for a /Mode value mapped to both commands the PCP goes
\* to the inverter before the POP, and the POP is sent when the PCP failed.
C25_ChargerThenOutput ==
    BothMapped =>
        /\ PCPFirst
        /\ PCPFailed => POPSent

\* C25 amended: the PCP goes to the inverter before the POP whenever both
\* go; the POP is sent whenever the device object of its call was
\* constructed, whether the PCP failed or not, and is not sent otherwise.
C25_ChargerThenOutputWhenConstructed ==
    BothMapped =>
        /\ PCPFirst
        /\ \A k \in DOMAIN req.calls :
              req.calls[k].sent =
                  IF req.calls[k].devOk THEN req.calls[k].batch ELSE <<>>

\* Under PI30 the PCP of /Mode 2 went to the device and failed on all
\* attempts, and the POP went after it.
C25_Witness ==
    /\ BothMapped
    /\ invProtocol = "PI30"
    /\ Sent = <<"PCP03", "POP02">>
    /\ req.calls[1].returned[1].form = "no_response"
    /\ req.calls[2].returned[1].form = "dict_data"

\* ------------------------------------------- the functions that open the port
\* The scripts are programs of their own: while one of their functions is
\* followed the service stays as constructed and nothing of it moves.
ScriptsOnly ==
    /\ DispatchIdle
    /\ ServiceInit
    /\ req = None
    /\ inp = None
    /\ detect = None
    /\ invData = None
    /\ diag = None
    /\ loop = None

\* SAFE_COMMANDS of test_detect_protocol.py.
SAFE_COMMANDS == <<"PI", "GS", "MOD", "PIRI">>

\* `commands` and the descriptions of `configs` in test_raw_serial.
RawCommands == <<"PI", "ID", "GS", "PIRI">>
RawConfigs == <<"8N1", "8N2", "8E1", "8O1", "7N1", "7E1">>

\* A function at its first statement: the port is closed, nothing returned.
Entered(fn, at) ==
    [fn |-> fn, pc |-> at, port |-> "closed", config |-> 1, cmd |-> 1,
     any |-> 0, data |-> 0, ret |-> "none"]

\* What a step that can raise does.
StepOutcomes == {"ok", "raises"}

\* try_command: (got_any, got_data) of one command; it catches every
\* exception itself.
CommandScores == {<<FALSE, FALSE>>, <<TRUE, FALSE>>, <<TRUE, TRUE>>}

\* -- score_protocol_on_baud
\* `with serial.Serial(...) as ser:` an exception of the constructor is caught
\* by the function's handler, which records it in the result.
Score_Open ==
    /\ tool # None /\ tool.fn = "score_protocol_on_baud" /\ tool.pc = "open"
    /\ \E o \in StepOutcomes :
         tool' = IF o = "ok"
                 THEN [tool EXCEPT !.port = "open", !.pc = "setup"]
                 ELSE [tool EXCEPT !.pc = "returned", !.ret = "error"]
    /\ UNCHANGED <<dvars, svars, pvars, req>>

\* The settings of the port and proto_cls(): an exception leaves the `with`
\* block, which closes the port, and is recorded in the result.
Score_Setup ==
    /\ tool # None /\ tool.fn = "score_protocol_on_baud" /\ tool.pc = "setup"
    /\ \E o \in StepOutcomes :
         tool' = IF o = "ok"
                 THEN [tool EXCEPT !.pc = "command"]
                 ELSE [tool EXCEPT !.port = "closed", !.pc = "returned",
                                   !.ret = "error"]
    /\ UNCHANGED <<dvars, svars, pvars, req>>

\* One round of `for cmd in SAFE_COMMANDS`; after the last the `with` block
\* ends and the result is returned.
Score_Command ==
    /\ tool # None /\ tool.fn = "score_protocol_on_baud"
    /\ tool.pc = "command"
    /\ \E s \in CommandScores :
         LET t == [tool EXCEPT !.any = @ + (IF s[1] THEN 1 ELSE 0),
                               !.data = @ + (IF s[2] THEN 1 ELSE 0)]
         IN tool' = IF tool.cmd < Len(SAFE_COMMANDS)
                    THEN [t EXCEPT !.cmd = @ + 1]
                    ELSE [t EXCEPT !.port = "closed", !.pc = "returned",
                                   !.ret = "result"]
    /\ UNCHANGED <<dvars, svars, pvars, req>>

\* -- test_real_device
\* `import serial` and `ser = serial.Serial('/dev/ttyUSB0', 2400, timeout=1)`:
\* either may raise, and the port is open when neither does.
Device_Open ==
    /\ tool # None /\ tool.fn = "test_real_device"
    /\ tool.pc \in {"import_serial", "open"}
    /\ \E o \in StepOutcomes :
         tool' = CASE o = "raises" ->
                        [tool EXCEPT !.pc = "returned", !.ret = "False"]
                   [] o = "ok" /\ tool.pc = "import_serial" ->
                        [tool EXCEPT !.pc = "open"]
                   [] OTHER ->
                        [tool EXCEPT !.port = "open",
                                     !.pc = "import_protocol"]
    /\ UNCHANGED <<dvars, svars, pvars, req>>

\* The steps between the opening and the exchange, in order.
DeviceSteps == <<"import_protocol", "create", "lookup", "format", "write">>

DeviceStepAfter(at) ==
    DeviceSteps[(CHOOSE i \in 1..Len(DeviceSteps) : DeviceSteps[i] = at) + 1]

\* The import of pi18sv, pi18sv(), `test_command in protocol.COMMANDS` and
\* get_full_command: an exception of any of them reaches the outer handlers,
\* which return False; a command that is not found or not formatted goes to
\* ser.close().
Device_Prepare ==
    /\ tool # None /\ tool.fn = "test_real_device"
    /\ tool.pc \in {"import_protocol", "create", "lookup", "format"}
    /\ \E o \in StepOutcomes \cup {"falsy"} :
         /\ o = "falsy" => tool.pc \in {"lookup", "format"}
         /\ tool' = CASE o = "raises" ->
                           [tool EXCEPT !.pc = "returned", !.ret = "False"]
                      [] o = "falsy" -> [tool EXCEPT !.pc = "close"]
                      [] OTHER ->
                           [tool EXCEPT !.pc = DeviceStepAfter(tool.pc)]
    /\ UNCHANGED <<dvars, svars, pvars, req>>

\* ser.write, ser.read and get_responses: their exceptions are caught where
\* they happen, and every way out of them goes to ser.close().
Device_Exchange ==
    /\ tool # None /\ tool.fn = "test_real_device"
    /\ tool.pc \in {"write", "read", "decode"}
    /\ \E o \in StepOutcomes \cup {"falsy"} :
         /\ o = "falsy" => tool.pc = "read"
         /\ tool' = CASE o = "ok" /\ tool.pc = "write" ->
                           [tool EXCEPT !.pc = "read"]
                      [] o = "ok" /\ tool.pc = "read" ->
                           [tool EXCEPT !.pc = "decode"]
                      [] OTHER -> [tool EXCEPT !.pc = "close"]
    /\ UNCHANGED <<dvars, svars, pvars, req>>

\* ser.close(), then `return True`.
Device_Close ==
    /\ tool # None /\ tool.fn = "test_real_device" /\ tool.pc = "close"
    /\ tool' = [tool EXCEPT !.port = "closed", !.pc = "returned",
                            !.ret = "True"]
    /\ UNCHANGED <<dvars, svars, pvars, req>>

\* -- test_raw_serial
\* The configuration after this one, or the final `return False, ...`.
NextConfig(t) ==
    IF t.config < Len(RawConfigs)
    THEN [t EXCEPT !.port = "closed", !.config = @ + 1, !.cmd = 1,
                   !.pc = "open"]
    ELSE [t EXCEPT !.port = "closed", !.pc = "returned", !.ret = "False"]

\* `with serial.Serial(port, baud, ...) as ser:` for one configuration; an
\* exception is printed and the next configuration is tried.
Raw_Open ==
    /\ tool # None /\ tool.fn = "test_raw_serial" /\ tool.pc = "open"
    /\ \E o \in StepOutcomes :
         tool' = IF o = "ok"
                 THEN [tool EXCEPT !.port = "open", !.pc = "write"]
                 ELSE NextConfig(tool)
    /\ UNCHANGED <<dvars, svars, pvars, req>>

\* The command after this one; after the last the `with` block ends.
NextRawCommand(t) ==
    IF t.cmd < Len(RawCommands)
    THEN [t EXCEPT !.cmd = @ + 1, !.pc = "write"]
    ELSE NextConfig(t)

\* One command of one configuration: format_command, the buffers, write
\* and flush ("write"), then in_waiting, read and the decoding for the
\* print ("read").  An exception leaves the `with` block; a response
\* returns from inside it; both close the port.
Raw_Command ==
    /\ tool # None /\ tool.fn = "test_raw_serial"
    /\ tool.pc \in {"write", "read"}
    /\ \E o \in StepOutcomes \cup {"nothing"} :
         /\ o = "nothing" => tool.pc = "read"
         /\ tool' = CASE o = "raises" -> NextConfig(tool)
                      [] o = "nothing" -> NextRawCommand(tool)
                      [] tool.pc = "write" -> [tool EXCEPT !.pc = "read"]
                      [] OTHER ->
                           [tool EXCEPT !.port = "closed",
                                        !.pc = "returned", !.ret = "True"]
    /\ UNCHANGED <<dvars, svars, pvars, req>>

\* -- diagnose_timeouts
\* `timeouts` of diagnose_timeouts, in milliseconds.
Timeouts == <<500, 1000, 2000, 3000, 5000>>

\* The timeout after this one, or the final `return None, None`.
NextTimeout(t) ==
    IF t.config < Len(Timeouts)
    THEN [t EXCEPT !.port = "closed", !.config = @ + 1, !.pc = "open"]
    ELSE [t EXCEPT !.port = "closed", !.pc = "returned", !.ret = "None"]

\* `with serial.Serial(port, baud, timeout=timeout, ...) as ser:`.
Timeouts_Open ==
    /\ tool # None /\ tool.fn = "diagnose_timeouts" /\ tool.pc = "open"
    /\ \E o \in StepOutcomes :
         tool' = IF o = "ok"
                 THEN [tool EXCEPT !.port = "open", !.pc = "write"]
                 ELSE NextTimeout(tool)
    /\ UNCHANGED <<dvars, svars, pvars, req>>

\* The buffers, write, flush and read_until: an exception and an empty
\* response leave the `with` block for the next timeout, a response returns
\* from inside it.
Timeouts_Exchange ==
    /\ tool # None /\ tool.fn = "diagnose_timeouts" /\ tool.pc = "write"
    /\ \E o \in StepOutcomes \cup {"nothing"} :
         tool' = IF o = "ok"
                 THEN [tool EXCEPT !.port = "closed", !.pc = "returned",
                                   !.ret = "response"]
                 ELSE NextTimeout(tool)
    /\ UNCHANGED <<dvars, svars, pvars, req>>

\* Each of the functions that open the port, called once.
SerialInit ==
    /\ ScriptsOnly
    /\ tool \in {Entered("score_protocol_on_baud", "open"),
                 Entered("test_real_device", "import_serial"),
                 Entered("test_raw_serial", "open"),
                 Entered("diagnose_timeouts", "open")}

SerialNext ==
    \/ Score_Open \/ Score_Setup \/ Score_Command
    \/ Device_Open \/ Device_Prepare \/ Device_Exchange \/ Device_Close
    \/ Raw_Open \/ Raw_Command
    \/ Timeouts_Open \/ Timeouts_Exchange

SpecSerial == SerialInit /\ [][SerialNext]_vars

\* The function has returned.
Returned == tool # None /\ tool.pc = "returned"

\* C26: every function that opens the serial port has released it when it
\* returns, on every exit path, those where a step raised included.
C26_PortReleased == Returned => tool.port = "closed"

\* ------------------------------------------------ crc16 and format_command
\* The longest command handed to format_command, in characters.
MaxCommand == 2

\* The characters of the commands, as their ASCII codes: P, I, G, S.
CommandBytes == {80, 73, 71, 83}

\* `a ^ b` on the non-negative integers.
RECURSIVE Xor(_, _)
Xor(a, b) ==
    IF a = 0 THEN b
    ELSE IF b = 0 THEN a
    ELSE ((a + b) % 2) + 2 * Xor(a \div 2, b \div 2)

\* 0xA001
Polynomial == 40961

\* `crc ^= byte` with the top bit of the byte left out.
Mix_LowBits(crc, byte) == Xor(crc, byte % 128)

\* `crc ^= byte`
Mix(crc, byte) == Xor(crc, byte)

\* One round of `for _ in range(8)`.
Shift(crc) ==
    IF crc % 2 = 1 THEN Xor(crc \div 2, Polynomial) ELSE crc \div 2

\* `for _ in range(8)`, with n rounds to go; a register of zero stays zero.
RECURSIVE Shifted(_, _)
Shifted(crc, n) ==
    IF crc = 0 \/ n = 0 THEN crc ELSE Shifted(Shift(crc), n - 1)

\* `for byte in data:` from position i on, with crc so far.
RECURSIVE crc16From(_, _, _)
crc16From(data, i, crc) ==
    IF i > Len(data) THEN crc
    ELSE crc16From(data, i + 1, Shifted(Mix(crc, data[i]), 8))

crc16(data) == crc16From(data, 1, 0)

\* f"{n:03d}".encode('ascii')
Digits3(n) == <<48 + (n \div 100), 48 + ((n \div 10) % 10), 48 + (n % 10)>>

\* format_command(cmd): "^P", the length, the command, the checksum's high
\* and low byte, "\r".
format_command(cmd) ==
    LET cmd_bytes == <<94, 80>> \o Digits3(Len(cmd)) \o cmd
        crc == crc16(cmd_bytes)
    IN  cmd_bytes \o <<crc \div 256, crc % 256>> \o <<13>>

\* The part of a frame the checksum is computed over, and the checksum the
\* frame carries.
Payload(frame) == SubSeq(frame, 1, Len(frame) - 3)
Carried(frame) == frame[Len(frame) - 2] * 256 + frame[Len(frame) - 1]
Matches(frame) == crc16(Payload(frame)) = Carried(frame)

\* The frame with bit b of its byte i flipped.
Flipped(frame, i, b) == [frame EXCEPT ![i] = Xor(@, 2 ^ b)]

FrameCommands == UNION {[1..n -> CommandBytes] : n \in 0..MaxCommand}

\* format_command is called with a command.
FrameInit ==
    /\ ScriptsOnly
    /\ \E cmd \in FrameCommands :
         tool = [fn |-> "format_command", pc |-> "called", cmd |-> cmd,
                 frame |-> <<>>, received |-> <<>>]

\* format_command returns the frame.
Format ==
    /\ tool # None /\ tool.fn = "format_command" /\ tool.pc = "called"
    /\ tool' = [tool EXCEPT !.pc = "framed",
                            !.frame = format_command(tool.cmd)]
    /\ UNCHANGED <<dvars, svars, pvars, req>>

\* The frame arrives as it was sent.
Deliver ==
    /\ tool # None /\ tool.fn = "format_command" /\ tool.pc = "framed"
    /\ tool' = [tool EXCEPT !.pc = "delivered", !.received = tool.frame]
    /\ UNCHANGED <<dvars, svars, pvars, req>>

\* The frame arrives with one bit of its payload flipped.
Corrupt ==
    /\ tool # None /\ tool.fn = "format_command" /\ tool.pc = "framed"
    /\ \E i \in 1..Len(Payload(tool.frame)), b \in 0..7 :
         tool' = [tool EXCEPT !.pc = "flipped",
                              !.received = Flipped(tool.frame, i, b)]
    /\ UNCHANGED <<dvars, svars, pvars, req>>

FrameNext == Format \/ Deliver \/ Corrupt

SpecFrames == FrameInit /\ [][FrameNext]_vars

\* The frame has arrived.
Arrived == tool # None /\ tool.pc \in {"delivered", "flipped"}

\* C27: crc16 returns a value in 0..65535 for every byte sequence; flipping
\* any single bit of a payload changes its checksum, so a frame of
\* format_command with one payload bit flipped no longer carries a matching
\* checksum, while the unmodified frame does.
C27_SingleBitFlipDetected ==
    Arrived =>
        /\ crc16(Payload(tool.frame)) \in 0..65535
        /\ crc16(Payload(tool.received)) \in 0..65535
        /\ Matches(tool.frame)
        /\ tool.pc = "delivered" => Matches(tool.received)
        /\ tool.pc = "flipped" =>
              /\ crc16(Payload(tool.received)) # crc16(Payload(tool.frame))
              /\ ~Matches(tool.received)

\* The frame of "PI" arrived with the top bit of its "P" flipped.
C27_Witness ==
    /\ Arrived
    /\ tool.pc = "flipped"
    /\ tool.frame = <<94, 80, 48, 48, 50, 80, 73, 168, 160, 13>>
    /\ tool.received = <<94, 80, 48, 48, 50, 208, 73, 168, 160, 13>>

\* ------------------------------------------------ _process_parallel_data
\* The units whose answers are handed to _process_parallel_data, at most.
MaxUnits == 2

\* The answer of one unit: an error entry, or a dict whose fields may be
\* missing.  None is a missing key; the dicts carry neither
\* 'AC Output Voltage' nor 'AC Output Frequency'.
UnitAnswers ==
    {[error |-> TRUE, power |-> None, apparent |-> None, voltage |-> None,
      discharge |-> None, pv |-> None]}
    \cup
    {[error |-> FALSE,
      power |-> IF p THEN Some(200) ELSE None,
      apparent |-> IF p THEN Some(250) ELSE None,
      voltage |-> bv, discharge |-> c, pv |-> q] :
        p \in BOOLEAN, bv \in {None, Some(48), Some(52)},
        c \in {None, Some(5)}, q \in {None, Some(120)}}

\* dict.get(key, default)
OrDefault(o, default) == IF o = None THEN default ELSE Val(o)

\* The locals before the loop, and the paths not yet written.
ParallelStart ==
    [total_ac_output_power |-> 0, total_ac_output_apparent |-> 0,
     battery_voltage |-> None, battery_current |-> 0, pv_total_power |-> 0,
     phases |-> <<>>, m |-> <<>>, v |-> <<>>]

\* One round of `for i, phase_data in enumerate(raw_data)` (i counts from 1
\* here): an error entry is passed over; a dict adds to the totals and
\* writes the paths of phase L<i>.
ParallelRound(acc, i, phase_data) ==
    IF phase_data.error THEN acc
    ELSE LET phase_power == OrDefault(phase_data.power, 0)
             phase_apparent == OrDefault(phase_data.apparent, 0)
         IN [acc EXCEPT
               !.total_ac_output_power = @ + phase_power,
               !.total_ac_output_apparent = @ + phase_apparent,
               !.phases = @ \o <<[phase |-> i, V |-> None, F |-> None,
                                  P |-> Some(phase_power),
                                  S |-> Some(phase_apparent)]>>,
               !.battery_voltage =
                   IF @ = None THEN phase_data.voltage ELSE @,
               !.battery_current = @ + OrDefault(phase_data.discharge, 0),
               !.pv_total_power = @ + OrDefault(phase_data.pv, 0)]

RECURSIVE ParallelLoop(_, _, _)
ParallelLoop(raw_data, i, acc) ==
    IF i > Len(raw_data) THEN acc
    ELSE ParallelLoop(raw_data, i + 1, ParallelRound(acc, i, raw_data[i]))

\* _process_parallel_data(raw_data, m, v): the locals at the end and the
\* paths written after the loop.
_process_parallel_data(raw_data) ==
    LET acc == ParallelLoop(raw_data, 1, ParallelStart)
    IN  [acc EXCEPT
           !.m = [p \in {"/Dc/0/Voltage", "/Dc/0/Current", "/Pv/0/P",
                         "/MppOperationMode", "/Ac/NumberOfPhases"} |->
                    CASE p = "/Dc/0/Voltage" -> acc.battery_voltage
                      [] p = "/Dc/0/Current" -> Some(-acc.battery_current)
                      [] p = "/Pv/0/P" -> Some(acc.pv_total_power)
                      [] p = "/MppOperationMode" ->
                           Some(IF acc.pv_total_power > 0 THEN 2 ELSE 0)
                      [] OTHER -> Some(Len(raw_data))],
           !.v = [p \in {"/Dc/0/Voltage", "/Dc/0/Current",
                         "/Ac/NumberOfPhases"} |->
                    CASE p = "/Dc/0/Voltage" -> acc.battery_voltage
                      [] p = "/Dc/0/Current" -> Some(acc.battery_current)
                      [] OTHER -> Some(Len(raw_data))]]

\* The function is called with the answers of up to MaxUnits units.
ParallelInit ==
    /\ ScriptsOnly
    /\ \E raw_data \in UNION {[1..n -> UnitAnswers] : n \in 0..MaxUnits} :
         tool = [fn |-> "_process_parallel_data", pc |-> "called",
                 raw_data |-> raw_data, out |-> ParallelStart]

Process ==
    /\ tool # None /\ tool.fn = "_process_parallel_data"
    /\ tool.pc = "called"
    /\ tool' = [tool EXCEPT !.pc = "processed",
                            !.out = _process_parallel_data(tool.raw_data)]
    /\ UNCHANGED <<dvars, svars, pvars, req>>

ParallelNext == Process

SpecParallel == ParallelInit /\ [][ParallelNext]_vars

\* The units that answered without error, by position.
Included == {i \in 1..Len(tool.raw_data) : ~tool.raw_data[i].error}

\* The sum of a field over a set of the units, a missing value counting 0.
RECURSIVE SumOver(_, _)
SumOver(S, field) ==
    IF S = {} THEN 0
    ELSE LET i == CHOOSE j \in S : TRUE
         IN  OrDefault(tool.raw_data[i][field], 0) + SumOver(S \ {i}, field)

\* The included units that report a battery voltage.
Reporting == {i \in Included : tool.raw_data[i].voltage # None}

Processed == tool # None /\ tool.pc = "processed"

\* The totals and the battery voltage of C28.
TotalsOverIncluded ==
    /\ tool.out.total_ac_output_power = SumOver(Included, "power")
    /\ tool.out.total_ac_output_apparent = SumOver(Included, "apparent")
    /\ tool.out.battery_current = SumOver(Included, "discharge")
    /\ tool.out.m["/Dc/0/Voltage"] =
          IF Reporting = {} THEN None
          ELSE tool.raw_data[CHOOSE i \in Reporting :
                                \A j \in Reporting : i <= j].voltage

\* C28: in the multi-unit aggregation the totals are the sums over exactly
\* the units that answered without error, the battery voltage is that of the
\* first such unit reporting one, and the published phase count is the
\* number of units included in the sums.
C28_AggregatesIncludedUnits ==
    Processed =>
        /\ TotalsOverIncluded
        /\ tool.out.m["/Ac/NumberOfPhases"] = Some(Cardinality(Included))

\* The latest step was a call of _update that ran the handler and did not
\* succeed: the handler returned False or an exception reached _update.
PollFailed == cycle.how \in {"failed", "raised"}

\* C29: /Status/LastUpdate is the timestamp of the last successful update:
\* a poll that fails leaves it as it was.
C29_FailedPollKeepsLastUpdate ==
    [][PollFailed' =>
          m'["/Status/LastUpdate"] = m["/Status/LastUpdate"]]_vars

\* --------------------------------------- main of test_detect_protocol.py
\* The --baud-list, --try-eol and --try-rs485 arguments main is run with;
\* --try-parity, --try-bytesize and --try-stopbits name one value each.
BaudLists == {<<>>, <<2400>>, <<2400, 9600>>, <<9600, 2400>>}
EolLists == {<<"CR">>, <<"CR", "CRLF">>, <<"CRLF", "CR">>}

DetectArgs ==
    {a \in [bauds : BaudLists, eols : EolLists, try_rs485 : BOOLEAN] :
        Len(a.bauds) * Len(a.eols) * (IF a.try_rs485 THEN 2 ELSE 1) <= 2}

\* load_protocols()
Protos == <<"PI18", "PI18SV">>

\* `[False, True] if args.try_rs485 else [False]`
Rs485Of(a) == IF a.try_rs485 THEN <<FALSE, TRUE>> ELSE <<FALSE>>

\* The sequences s \o <<x>> for the x of a sequence xs, in order.
RECURSIVE Product(_, _)
Product(prefixes, xs) ==
    IF prefixes = <<>> THEN <<>>
    ELSE [i \in 1..Len(xs) |-> Append(Head(prefixes), xs[i])]
         \o Product(Tail(prefixes), xs)

\* The nested loops of main, outermost first: baud, protocol, line ending,
\* RS485; each element is <<baud, proto, eol, rs485>>.
Grid(a) ==
    Product(Product(Product(Product(<<<<>>>>, a.bauds), Protos), a.eols),
            Rs485Of(a))

\* What score_protocol_on_baud can make of one configuration: an error
\* before the first command, or the tallies of the commands, as <<any, data>>.
Scores == {<<0, 0>>, <<2, 1>>, <<4, 1>>, <<2, 2>>}

ScoreOf(config, score, error) ==
    [proto |-> config[2], baud |-> config[1], eol |-> config[3],
     rs485 |-> config[4], any |-> score[1], data |-> score[2],
     error |-> error]

\* The sort key of pick_best.
KeyOf(r) ==
    <<r.data, r.any, IF r.eol = "CR" THEN 1 ELSE 0,
      IF r.rs485 THEN 1 ELSE 0, -r.baud>>

\* Python's order of two tuples of the same length, from position i on.
RECURSIVE TupleLess(_, _, _)
TupleLess(a, b, i) ==
    IF i > Len(a) THEN FALSE
    ELSE IF a[i] # b[i] THEN a[i] < b[i]
    ELSE TupleLess(a, b, i + 1)

\* sorted(..., reverse=True) built one element at a time: r goes behind
\* the elements whose key is not less than its own, so that equal keys keep
\* the order of the list.
RECURSIVE InsertDescending(_, _)
InsertDescending(sorted, r) ==
    IF sorted = <<>> THEN <<r>>
    ELSE IF TupleLess(KeyOf(Head(sorted)), KeyOf(r), 1)
         THEN <<r>> \o sorted
         ELSE <<Head(sorted)>> \o InsertDescending(Tail(sorted), r)

RECURSIVE SortedDescending(_, _)
SortedDescending(rs, i) ==
    IF i = 0 THEN <<>>
    ELSE InsertDescending(SortedDescending(rs, i - 1), rs[i])

\* pick_best(results)
pick_best(rs) ==
    IF rs = <<>> THEN None ELSE Some(SortedDescending(rs, Len(rs))[1])

\* main is run with its arguments; nothing is scored yet.
RecommendInit ==
    /\ ScriptsOnly
    /\ \E a \in DetectArgs :
         tool = [fn |-> "main", pc |-> "scan", args |-> a,
                 all_results |-> <<>>, best |-> None, rc |-> None]

\* One round of the innermost loop: score_protocol_on_baud for the next
\* configuration, its result appended whatever it holds.
Scan ==
    /\ tool # None /\ tool.fn = "main" /\ tool.pc = "scan"
    /\ Len(tool.all_results) < Len(Grid(tool.args))
    /\ \E score \in Scores, error \in BOOLEAN :
         /\ error => score = <<0, 0>>
         /\ tool' = [tool EXCEPT !.all_results =
                        Append(@, ScoreOf(Grid(tool.args)[Len(@) + 1],
                                          score, error))]
    /\ UNCHANGED <<dvars, svars, pvars, req>>

\* After the loops: pick_best; without a best result main returns 1, with
\* one it prints the recommendation and returns 0.
Summarize ==
    /\ tool # None /\ tool.fn = "main" /\ tool.pc = "scan"
    /\ Len(tool.all_results) = Len(Grid(tool.args))
    /\ LET best == pick_best(tool.all_results)
       IN  tool' = [tool EXCEPT !.pc = "returned", !.best = best,
                                !.rc = Some(IF best = None THEN 1 ELSE 0)]
    /\ UNCHANGED <<dvars, svars, pvars, req>>

RecommendNext == Scan \/ Summarize

SpecRecommend == RecommendInit /\ [][RecommendNext]_vars

\* main has returned.
Summarized == tool # None /\ tool.fn = "main" /\ tool.pc = "returned"

\* The results of the run, as a set of positions.
Scored == 1..Len(tool.all_results)

\* r is at least as good as s in the order of the claim: more data
\* responses, then more responses of any kind, then CR, then RS485 on, then
\* the lower baud rate.
Preferred(r, s) ==
    \/ r.data > s.data
    \/ r.data = s.data /\ r.any > s.any
    \/ r.data = s.data /\ r.any = s.any /\ r.eol = "CR" /\ s.eol # "CR"
    \/ r.data = s.data /\ r.any = s.any /\ (r.eol = "CR") = (s.eol = "CR")
         /\ r.rs485 /\ ~s.rs485
    \/ r.data = s.data /\ r.any = s.any /\ (r.eol = "CR") = (s.eol = "CR")
         /\ r.rs485 = s.rs485 /\ r.baud <= s.baud

\* pick_best returned None exactly for the empty list, and otherwise a
\* result of the list that is preferred to every other.
BestIsMaximal ==
    /\ tool.best = None <=> tool.all_results = <<>>
    /\ tool.best # None =>
          /\ \E i \in Scored : tool.all_results[i] = Val(tool.best)
          /\ \A i \in Scored : Preferred(Val(tool.best), tool.all_results[i])

\* C30: pick_best returns None exactly when the list of results is empty,
\* and otherwise a result that is maximal by (data, any), ties going to CR,
\* then RS485 on, then the lower baud rate; and the configuration main
\* recommends received at least one response.
C30_RecommendedResponded ==
    Summarized =>
        /\ BestIsMaximal
        /\ tool.rc = Some(0) => Val(tool.best).any >= 1

\* ------------------------------------------------ detection claims, again
\* _detect_protocol with its loop never left waiting: each pass of the loop
\* and the code after it run once they can.
SpecDetectFair ==
    /\ DetectInit
    /\ [][DetectNext]_vars
    /\ WF_vars(Probe)
    /\ WF_vars(DetectionFails)

\* C31: whatever the outcome of _detect_protocol, the identification data
\* it leaves has the entry setupDefaultPaths reads, so that construction
\* completes and the poll is scheduled.
C31_IdentificationSupportsConstruction ==
    detect.pc = "returned" => (HasFirmwareEntry(invData) /\ Constructed)

\* C34: _detect_protocol makes at most max_retries probe attempts, each a
\* batch of at most `retries` tries of the identification command, makes no
\* attempt after the first that succeeds, and returns in every case.
C34_DetectionTerminates ==
    /\ [](/\ detect.probes <= max_retries
          /\ detect.tries <= retries
          /\ detect.good => (/\ detect.pc = "returned"
                             /\ detect.returned = "True"
                             /\ detect.probes = detect.attempt + 1))
    /\ <>(detect.pc = "returned")

\* Detection returned False after three attempts of three tries each.
C34_Witness ==
    /\ detect.pc = "returned"
    /\ detect.returned = "False"
    /\ detect.probes = max_retries
    /\ detect.tries = retries

\* An attempt was made that did not commit, and detection goes on.
AttemptFailed == detect.pc = "probing" /\ detect.probes >= 1

\* C35: between two consecutive detection attempts there is a backoff wait
\* of at least base_delay * 2^attempt, for every way the earlier attempt
\* can end without committing; no wait follows the last attempt.
C35_BackoffBetweenAttempts ==
    AttemptFailed =>
        IF detect.attempt < max_retries
        THEN detect.wait >= base_delay * Pow2(detect.attempt - 1)
        ELSE detect.wait = 0

\* ---------------------------------- construction, polls and change requests
\* A client's write once the service is constructed.
ServiceChange == Constructed /\ Change_PI18

ServiceNext ==
    Probe \/ DetectionFails \/ ServiceTick \/ ServicePoll \/ ServiceChange

\* __init__ with _detect_protocol, then the service as the main loop runs it.
SpecService == DetectInit /\ [][ServiceNext]_vars

\* A handler of another dialect than PI18 could be dispatched to.
OtherDialectDispatched ==
    \/ ENABLED Update_PI30
    \/ ENABLED Update_PI17
    \/ ENABLED Project_PI18SV
    \/ ENABLED Request_PI30
    \/ ENABLED Request_PI17
    \/ ENABLED Request_PI18SV

DefaultProtocol == "PI30"

\* The handler _update dispatches to when self._invProtocol is p.
HandlerOf(p) ==
    CASE p \in {"PI30", "PI30MAX"} -> "_update_PI30"
      [] p = "PI17" -> "_update_PI17"
      [] p = "PI18SV" -> "_update_PI18SV"
      [] OTHER -> "_update_PI18"

\* The dialect handler h passes to runInverterCommands when self._invProtocol
\* is p: _update_PI18 and _update_PI18SV pass self._invProtocol, _update_PI30
\* and _update_PI17 pass nothing.
SentUnder(h, p) ==
    IF h \in {"_update_PI18", "_update_PI18SV"} THEN p ELSE DefaultProtocol

\* C33: the commands of a poll cycle are sent under the active dialect,
\* whichever handler ran.  Violated: _update_PI17 calls runInverterCommands
\* without a dialect, so GS, MOD and WS go out under PI30 while PI17 is
\* active.
C33_SentUnderActiveDialect ==
    PollRan => SentUnder(HandlerOf(invProtocol), invProtocol) = invProtocol

\* ---------------------------------- change requests waiting for a poll
\* The change requests that may wait in self._queued_updates at once.
MaxPending == 2

\* What clients write here: poll intervals other than the one __init__
\* sets.
SettingWrites ==
    {<<"/Settings/UpdateInterval", 1>>, <<"/Settings/UpdateInterval", 3>>}

\* A client writes a setting and the main loop calls _change.
Change_Setting ==
    /\ mainloop = "running"
    /\ invProtocol = "PI18"
    /\ Len(queued_updates) < MaxPending
    /\ \E w \in SettingWrites : _change(w[1], w[2])
    /\ UNCHANGED <<dvars, pvars, tvars>>

QueueNext == Tick \/ Update_PI18 \/ Change_Setting

SpecQueue == Init /\ [][QueueNext]_vars

\* The value the last request for path left in the queue q, None when the
\* path is not queued.
RECURSIVE LastQueued(_, _)
LastQueued(q, path) ==
    IF q = <<>>
    THEN None
    ELSE IF q[Len(q)][1] = path
    THEN Some(q[Len(q)][2])
    ELSE LastQueued(SubSeq(q, 1, Len(q) - 1), path)

QueuedPaths == {queued_updates[i][1] : i \in DOMAIN queued_updates}

\* C36: a successful poll leaves every queued path published with the value
\* of the latest request for it and the queue empty; a failed poll leaves
\* the queue as it was and the queued paths as they were published.
C36_QueueAppliedInOrder ==
    [][/\ cycle'.how = "success" =>
            /\ queued_updates' = <<>>
            /\ \A p \in QueuedPaths : m'[p] = LastQueued(queued_updates, p)
       /\ PollFailed' =>
            /\ queued_updates' = queued_updates
            /\ \A p \in QueuedPaths : m'[p] = m[p]]_vars

\* The first successful poll has published a queued request.
C36_Witness ==
    /\ cycle.how = "success"
    /\ queued_updates = <<>>
    /\ m["/Settings/UpdateInterval"] = Some(1)
    /\ m["/Status/UpdateCount"] = Some(1)

\* Some accepted change request waits for a poll to publish it.
Pending == queued_updates # <<>>

\* A later poll can still run: the timeout source is in place and the main
\* loop runs.
PollsGoOn == timer = "scheduled" /\ mainloop = "running"

\* C37: an accepted change request is published by some later poll, however
\* requests interleave with successful and failed polls: while a request
\* waits, polls go on.  Violated: _update returns False after a failed
\* cycle, GLib removes the timeout source, and no poll ever runs again to
\* publish what is queued.
C37_PendingChangeIsPublished == Pending => PollsGoOn

\* C38: the interval published at /Settings/UpdateInterval is the one the
\* throttle of _update goes by: a poll runs its handler only once that
\* interval has passed since the last successful poll.  Violated: a write
\* to the path is queued and published, self._update_interval stays at 2.
C38_WrittenIntervalThrottles ==
    [][PollRan' =>
         now - last_update >= Val(m["/Settings/UpdateInterval"])]_vars

\* ---------------------------------------------------------------- C39
\* C39: after a poll cycle, successful or failed, both services publish the
\* same /State.  Violated: _handle_protocol_error writes /State of the multi
\* service only, so a failed cycle leaves the acsystem service with the
\* state of the last successful one.
C39_ServicesAgreeOnState == PollRan => m["/State"] = v["/State"]

\* ---------------------------------------------------------------- C40
\* The largest DC system power the import is read as.
LargestDcReading ==
    CHOOSE d \in {Val(x) : x \in DcReadings \ {None}} :
       \A x \in DcReadings \ {None} : Val(x) <= d

\* C40: over polls with AC charging on and DC readings within a bound,
\* self._chargeLast stays within a bound too (here: that of the readings), as
\* self._dcLast stays within 0..73.  Violated: each such poll adds the
\* reading less 30 to the carry and nothing clamps it, so under a steady
\* reading of 200 it is 170, 340, ... and passes any bound.
C40_ChargeCarryBounded ==
    /\ chargeLast <= LargestDcReading
    /\ chargeLast >= -LargestDcReading

====
